---- MODULE Spec2Model ----
(***************************************************************************)
(* A model of the component manager of malevich_space:                     *)
(*   - SlowComponentManager.increment_version (version arithmetic),        *)
(*   - SpaceOps._parse_in_flow_component / _parse_comp (response parsing), *)
(*   - SlowComponentManager.component and the content realization it       *)
(*     dispatches to (reconciliation against the remote Space service).    *)
(* Strings that the code inspects character by character (version names)   *)
(* are sequences of one-character strings.                                 *)
(***************************************************************************)
EXTENDS Integers, Sequences, FiniteSets, TLC

VARIABLES
    remote,     \* the state of the remote Space service
    log,        \* the gateway calls the last component() call issued, in order
    calls,      \* the component() calls made so far: [comp, mode, result]
    provider,   \* the local component provider: reverse_id -> ComponentSchema
    menu,       \* the requests [comp, mode] the caller chooses from
    left,       \* the component() calls the caller still makes
    procs,      \* component() calls in progress side by side: [stack, log, out]
    fin,        \* increment_version: the arguments [previous, mode]
    fout,       \* increment_version: the outcome [st, value]
    pin,        \* _parse_in_flow_component: the raw response in_flow_data
    pout        \* _parse_in_flow_component: the outcome [st, value]

mgr == <<remote, log, calls, provider, menu, left, procs>>
fns == <<fin, fout, pin, pout>>
vars == <<remote, log, calls, provider, menu, left, procs, fin, fout, pin, pout>>

(***************************************************************************)
(* Strings                                                                 *)
(***************************************************************************)
\* Python's None where a str is expected (distinct from the empty string).
NoneStr == <<"<None>">>

Digits == {"0", "1", "2", "3", "4", "5", "6", "7", "8", "9"}

\* The longest version name drawn as an input of increment_version.
MaxLen == 6

\* The characters input version names are drawn from.
Alphabet == {"1", "9", ".", "a", "\n"}

Last(s) == s[Len(s)]
Front(s) == SubSeq(s, 1, Len(s) - 1)

RECURSIVE Concat(_)
Concat(ss) == IF ss = <<>> THEN <<>> ELSE Head(ss) \o Concat(Tail(ss))

DigitVal(c) ==
    CASE c = "0" -> 0 [] c = "1" -> 1 [] c = "2" -> 2 [] c = "3" -> 3
      [] c = "4" -> 4 [] c = "5" -> 5 [] c = "6" -> 6 [] c = "7" -> 7
      [] c = "8" -> 8 [] c = "9" -> 9

DigitChar(d) ==
    CASE d = 0 -> "0" [] d = 1 -> "1" [] d = 2 -> "2" [] d = 3 -> "3"
      [] d = 4 -> "4" [] d = 5 -> "5" [] d = 6 -> "6" [] d = 7 -> "7"
      [] d = 8 -> "8" [] d = 9 -> "9"

AllDigits(s) == s # <<>> /\ \A i \in 1..Len(s) : s[i] \in Digits

\* Python's str.strip() of the one whitespace character of the alphabet.
RECURSIVE StripWs(_)
StripWs(s) ==
    IF s = <<>> THEN s
    ELSE IF Head(s) = "\n" THEN StripWs(Tail(s))
    ELSE IF Last(s) = "\n" THEN StripWs(Front(s))
    ELSE s

RECURSIVE DigitsToInt(_)
DigitsToInt(s) ==
    IF s = <<>> THEN 0 ELSE 10 * DigitsToInt(Front(s)) + DigitVal(Last(s))

\* Python's int(s): surrounding whitespace is stripped, leading zeros are
\* accepted; anything else raises ValueError.
IntParses(s) == AllDigits(StripWs(s))
PyInt(s) == DigitsToInt(StripWs(s))

\* Python's str(n) of a non-negative int.
RECURSIVE PyStr(_)
PyStr(n) ==
    IF n < 10 THEN <<DigitChar(n)>> ELSE PyStr(n \div 10) \o <<DigitChar(n % 10)>>

\* Python's s.split("."): the segments between the dots, empty ones kept.
RECURSIVE Split(_)
Split(s) ==
    IF \A i \in 1..Len(s) : s[i] # "."
    THEN <<s>>
    ELSE LET i == CHOOSE k \in 1..Len(s) :
                     s[k] = "." /\ \A j \in 1..(k - 1) : s[j] # "."
         IN <<SubSeq(s, 1, i - 1)>> \o Split(SubSeq(s, i + 1, Len(s)))

\* Python's ".".join(parts).
RECURSIVE Join(_)
Join(parts) ==
    IF Len(parts) = 0 THEN <<>>
    ELSE IF Len(parts) = 1 THEN parts[1]
    ELSE parts[1] \o <<".">> \o Join(Tail(parts))

\* The language of \d+(\.\d+)* : one or more dot-separated runs of digits.
NumericDotted(s) ==
    LET parts == Split(s) IN \A i \in 1..Len(parts) : AllDigits(parts[i])

\* The pattern with "$" matching only at the very end of the string.
MatchesStrict(s) == NumericDotted(s)

\* re.match(r"^\d+(\.\d+)*$", s): "$" matches at the end of the string and
\* also just before a newline that ends the string.
MatchesNumericalVersionPattern(s) ==
    \/ NumericDotted(s)
    \/ s # <<>> /\ Last(s) = "\n" /\ NumericDotted(Front(s))

(***************************************************************************)
(* increment_version                                                       *)
(***************************************************************************)
\* The tokens str(uuid.uuid4()) may return; every uuid string holds hyphens.
UUIDS == {<<"u", "-", "1">>, <<"u", "-", "2">>}

Modes == {"major", "minor", "patch"}

NotCalled == [st |-> "none", value |-> <<>>]
Ok(v) == [st |-> "ok", value |-> v]
Raised(e) == [st |-> "raised", value |-> <<e>>]

\* BumpSegments with the minor bump forgetting to reset the patch segment.
BumpSegments_KeepsPatch(broken, mode) ==
    IF Len(broken) < 3
    THEN Raised("IndexError")
    ELSE CASE mode = "major" ->
                Ok(Join([broken EXCEPT ![1] = PyStr(PyInt(broken[1]) + 1),
                                       ![2] = PyStr(0), ![3] = PyStr(0)]))
           [] mode = "minor" ->
                Ok(Join([broken EXCEPT ![2] = PyStr(PyInt(broken[2]) + 1)]))
           [] OTHER ->
                Ok(Join([broken EXCEPT ![3] = PyStr(PyInt(broken[3]) + 1)]))

\* The body of increment_version once the pattern has matched.
BumpSegments(broken, mode) ==
    IF Len(broken) < 3
    THEN Raised("IndexError")
    ELSE IF \/ mode = "major" /\ ~IntParses(broken[1])
            \/ mode = "minor" /\ ~IntParses(broken[2])
            \/ mode = "patch" /\ ~IntParses(broken[3])
    THEN Raised("ValueError")
    ELSE CASE mode = "major" ->
                Ok(Join([broken EXCEPT ![1] = PyStr(PyInt(broken[1]) + 1),
                                       ![2] = PyStr(0), ![3] = PyStr(0)]))
           [] mode = "minor" ->
                Ok(Join([broken EXCEPT ![2] = PyStr(PyInt(broken[2]) + 1),
                                       ![3] = PyStr(0)]))
           [] mode = "patch" ->
                Ok(Join([broken EXCEPT ![3] = PyStr(PyInt(broken[3]) + 1)]))
           [] OTHER -> Ok(Join(broken))

\* increment_version(previous, mode), with uuid the token uuid4 would return.
increment_version(previous, mode, uuid) ==
    LET prev == IF previous = NoneStr \/ previous = <<>>
                THEN <<"0", ".", "0", ".", "0">> ELSE previous
    IN IF MatchesNumericalVersionPattern(prev)
       THEN BumpSegments(Split(prev), mode)
       ELSE Ok(uuid)

(***************************************************************************)
(* JSON values of a gateway response                                       *)
(*   null, a string (a sequence, as every string of the model), an object  *)
(*   (a function from key names to values; a key that is missing is not in *)
(*   its domain), a list.                                                  *)
(***************************************************************************)
JNull == [t |-> "null"]
JStr(x) == [t |-> "str", s |-> x]
JObj(fields) == [t |-> "obj", f |-> fields]
JList(items) == [t |-> "list", l |-> items]

NoFields == [k \in {} |-> JNull]

\* An object with one key, and the union of the keys of two objects.
Field(k, v) == JObj(k :> v)
Merge(a, b) == JObj(a.f @@ b.f)

IsOk(r) == r.st = "ok"

\* Python truthiness of a JSON value.
Truthy(v) ==
    CASE v.t = "null" -> FALSE
      [] v.t = "str" -> v.s # <<>>
      [] v.t = "obj" -> DOMAIN v.f # {}
      [] v.t = "list" -> v.l # <<>>

\* v[k] with a string key k.
Sub(v, k) ==
    IF v.t = "obj"
    THEN IF k \in DOMAIN v.f THEN Ok(v.f[k]) ELSE Raised("KeyError")
    ELSE Raised("TypeError")

\* k in v.
HasKey(v, k) ==
    IF v.t = "obj" THEN Ok(k \in DOMAIN v.f) ELSE Raised("TypeError")

\* v[path[1]][path[2]]... : the first failing subscript raises.
RECURSIVE Path(_, _)
Path(v, path) ==
    IF path = <<>> THEN Ok(v)
    ELSE LET r == Sub(v, Head(path))
         IN IF IsOk(r) THEN Path(r.value, Tail(path)) ELSE r

\* _safe(obj, *args): any exception of the walk gives None.
Safe(obj, path) ==
    LET r == Path(obj, path) IN IF IsOk(r) THEN r.value ELSE JNull

(***************************************************************************)
(* SpaceOps._parse_in_flow_component and its helpers                       *)
(***************************************************************************)
\* A field declared `str` that lets None through.
IsStr_OrNone(v) == v.t = "str" \/ v.t = "null"

\* A pydantic field declared `str`: anything but a string fails validation.
IsStr(v) == v.t = "str"
\* A pydantic field declared `str | None`.
IsOptStr(v) == v.t = "str" \/ v.t = "null"

\* [LoadedOpSchema(**y['node']['details']) for y in edges]
RECURSIVE ParseActiveOps(_)
ParseActiveOps(edges) ==
    IF edges = <<>> THEN Ok(<<>>)
    ELSE LET d == Path(Head(edges), <<"node", "details">>)
         IN IF ~IsOk(d) THEN d
            ELSE IF d.value.t # "obj" THEN Raised("TypeError")
            ELSE IF ~("uid" \in DOMAIN d.value.f /\ IsStr(d.value.f["uid"]))
            THEN Raised("ValidationError")
            ELSE LET rest == ParseActiveOps(Tail(edges))
                 IN IF IsOk(rest) THEN Ok(<<d.value>> \o rest.value) ELSE rest

\* _parse_in_flow_app(app_data)
parse_in_flow_app(app_data) ==
    IF ~Truthy(app_data) THEN Ok(JNull)
    ELSE LET uid == Path(app_data, <<"details", "uid">>)
             edges == Path(app_data, <<"op", "edges">>)
         IN IF ~IsOk(uid) THEN uid
            ELSE IF ~IsOk(edges) THEN edges
            ELSE IF edges.value.t # "list" THEN Raised("TypeError")
            ELSE LET ops == ParseActiveOps(edges.value.l)
                 IN IF ~IsOk(ops) THEN ops
                    ELSE IF ~IsStr(uid.value) THEN Raised("ValidationError")
                    ELSE Ok(JObj([app_id |-> uid.value, active_op |-> JList(ops.value)]))

\* _parse_in_flow_prompt(prompt_data): LoadedPromptSchema(**prompt_data["details"])
parse_in_flow_prompt(prompt_data) ==
    IF ~Truthy(prompt_data) THEN Ok(JNull)
    ELSE LET d == Sub(prompt_data, "details")
         IN IF ~IsOk(d) THEN d
            ELSE IF d.value.t # "obj" THEN Raised("TypeError")
            ELSE IF \E k \in {"uid", "body", "name"} :
                       ~(k \in DOMAIN d.value.f /\ IsStr(d.value.f[k]))
            THEN Raised("ValidationError")
            ELSE Ok(d.value)

\* LoadedCfgSchema(uid=details["uid"], readable_name=details["readableName"], ...)
\* cfgJson is kept as the text the response holds (json.loads of it is not
\* modelled: the responses drawn hold a valid JSON text or null there).
parse_cfg(cfg) ==
    LET d == Sub(cfg, "details")
    IN IF ~IsOk(d) THEN d
       ELSE IF d.value.t # "obj" THEN Raised("TypeError")
       ELSE IF \E k \in {"uid", "readableName", "coreName", "coreId", "cfgJson"} :
                  k \notin DOMAIN d.value.f
       THEN Raised("KeyError")
       ELSE IF ~IsStr(d.value.f["uid"]) THEN Raised("ValidationError")
       ELSE Ok(JObj([uid |-> d.value.f["uid"],
                     readable_name |-> d.value.f["readableName"],
                     core_name |-> d.value.f["coreName"],
                     core_id |-> d.value.f["coreId"],
                     cfg_json |-> d.value.f["cfgJson"]]))

\* The try block of lines 407-412: LoadedInFlowCollectionSchema(collection_id=
\* node['collectionAlias']['details']['uid']); KeyError, ValueError (pydantic's
\* ValidationError is one) and TypeError leave the field unset.
parse_collection(in_flow_data) ==
    LET uid == Path(in_flow_data, <<"node", "collectionAlias", "details", "uid">>)
    IN IF IsOk(uid) /\ IsStr(uid.value)
       THEN JObj([collection_id |-> uid.value])
       ELSE JNull

\* The defaults of LoadedInFlowComponentSchema (schema/flow.py) for the keys
\* base_data does not set.
LoadedInFlowDefaults ==
    [reverse_id |-> JNull, comp_id |-> JNull, prev |-> <<>>,
     collection |-> JNull, active_cfg |-> JNull]

RECURSIVE parse_in_flow_component(_)
RECURSIVE ParsePrevEdges(_)

\* [self._parse_in_flow_component(prev) for prev in edges]
ParsePrevEdges(edges) ==
    IF edges = <<>> THEN Ok(<<>>)
    ELSE LET first == parse_in_flow_component(Head(edges))
         IN IF ~IsOk(first) THEN first
            ELSE LET rest == ParsePrevEdges(Tail(edges))
                 IN IF IsOk(rest) THEN Ok(<<first.value>> \o rest.value) ELSE rest

\* The `if "prev" in in_flow_data["node"]` block of lines 402-406.
parse_prev(node) ==
    IF "prev" \notin DOMAIN node.f THEN Ok(LoadedInFlowDefaults.prev)
    ELSE LET edges == Path(node, <<"prev", "edges">>)
         IN IF ~IsOk(edges) THEN edges
            ELSE IF edges.value.t # "list" THEN Raised("TypeError")
            ELSE ParsePrevEdges(edges.value.l)

\* LoadedInFlowComponentSchema(**kwargs) of the parsed parts, the first
\* failure among them raised instead.
LoadedInFlowComponent(uid, alias, app, prompt, reverse_id, comp_id, prev, collection, cfg) ==
    IF ~IsOk(app) THEN app
    ELSE IF ~IsOk(prompt) THEN prompt
    ELSE IF ~IsOk(reverse_id) THEN reverse_id
    ELSE IF ~IsOk(comp_id) THEN comp_id
    ELSE IF ~IsOk(prev) THEN prev
    ELSE IF ~IsOk(cfg) THEN cfg
    ELSE IF ~(IsStr(uid) /\ IsOptStr(alias) /\ IsOptStr(reverse_id.value)
              /\ IsOptStr(comp_id.value))
    THEN Raised("ValidationError")
    ELSE Ok([uid |-> uid, alias |-> alias, app |-> app.value,
             prompt |-> prompt.value, reverse_id |-> reverse_id.value,
             comp_id |-> comp_id.value, prev |-> prev.value,
             collection |-> collection, active_cfg |-> cfg.value])

\* The body of _parse_in_flow_component once in_flow_data["node"] is read.
ParseNode(in_flow_data, node) ==
    IF ~IsOk(node) THEN node
    ELSE IF node.value.t # "obj" THEN Raised("TypeError")
    ELSE LoadedInFlowComponent(
            Safe(in_flow_data, <<"node", "details", "uid">>),
            Safe(in_flow_data, <<"node", "details", "alias">>),
            IF "app" \in DOMAIN node.value.f
            THEN parse_in_flow_app(node.value.f["app"]) ELSE Ok(JNull),
            IF "prompt" \in DOMAIN node.value.f
            THEN parse_in_flow_prompt(node.value.f["prompt"]) ELSE Ok(JNull),
            IF "component" \in DOMAIN node.value.f
               /\ node.value.f["component"].t # "null"
            THEN Path(node.value.f["component"], <<"details", "reverseId">>)
            ELSE Ok(LoadedInFlowDefaults.reverse_id),
            IF "component" \in DOMAIN node.value.f
               /\ node.value.f["component"].t # "null"
            THEN Path(node.value.f["component"], <<"details", "uid">>)
            ELSE Ok(LoadedInFlowDefaults.comp_id),
            parse_prev(node.value),
            parse_collection(in_flow_data),
            IF "cfg" \in DOMAIN node.value.f /\ node.value.f["cfg"].t # "null"
            THEN parse_cfg(node.value.f["cfg"])
            ELSE Ok(LoadedInFlowDefaults.active_cfg))

\* _parse_in_flow_component(in_flow_data), in_flow_data a dict.
parse_in_flow_component(in_flow_data) ==
    ParseNode(in_flow_data, Sub(in_flow_data, "node"))

(***************************************************************************)
(* The remote Space service behind the gateway                             *)
(*   The service is not part of the repository; it is modelled as a store  *)
(*   that keeps what the mutations are given and answers the queries of    *)
(*   gql/component/get_comp_by_reverse_id.py from it.  A created version   *)
(*   becomes the active version of its branch; the first branch of a       *)
(*   component becomes its active branch, a later one may or may not.      *)
(***************************************************************************)
\* The uid the service mints for its n-th entity.
Uid(n) == <<"#">> \o PyStr(n)

EmptyRemote ==
    [comps |-> <<>>, branches |-> <<>>, versions |-> <<>>, flows |-> <<>>,
     cfgs |-> <<>>, schemas |-> {}, nextUid |-> 1]

NewUid(r) == Uid(r.nextUid)

\* mutation components.create
SrvCreateComponent(r, reverse_id, type) ==
    [r EXCEPT !.comps = (NewUid(r) :> [reverse_id |-> reverse_id, type |-> type,
                                       branches |-> <<>>, activeBranch |-> NoneStr]) @@ @,
              !.nextUid = @ + 1]

\* mutation component.createBranch
SrvCreateBranch(r, component_id, name, activate) ==
    LET uid == NewUid(r)
        first == r.comps[component_id].activeBranch = NoneStr
    IN [r EXCEPT !.branches = (uid :> [comp |-> component_id, name |-> name,
                                       versions |-> <<>>,
                                       activeVersion |-> NoneStr]) @@ @,
                 !.comps[component_id].branches = Append(@, uid),
                 !.comps[component_id].activeBranch =
                     IF first \/ activate THEN uid ELSE @,
                 !.nextUid = @ + 1]

\* mutation branch.createVersion
SrvCreateVersion(r, branch_id, readable_name, updates_markdown) ==
    LET uid == NewUid(r)
    IN [r EXCEPT !.versions = (uid :> [branch |-> branch_id,
                                       readableName |-> readable_name,
                                       updatesMarkdown |-> updates_markdown,
                                       content |-> <<>>]) @@ @,
                 !.branches[branch_id].versions = Append(@, uid),
                 !.branches[branch_id].activeVersion = uid,
                 !.nextUid = @ + 1]

\* mutations version.addUnderlyingApp / addUnderlyingCa / createUnderlyingAsset:
\* one more content object of the kind under the version.
SrvAddContent(r, version_id, kind) ==
    [r EXCEPT !.versions[version_id].content =
                  Append(@, [kind |-> kind, uid |-> NewUid(r)]),
              !.nextUid = @ + 1]

\* mutation version.addUnderlyingFlow
SrvCreateFlowInVersion(r, version_id) ==
    LET uid == NewUid(r)
    IN [r EXCEPT !.versions[version_id].content =
                     Append(@, [kind |-> "flow", uid |-> uid]),
                 !.flows = (uid :> [version |-> version_id, members |-> <<>>,
                                    links |-> <<>>, schemaAliases |-> <<>>]) @@ @,
                 !.nextUid = @ + 1]

\* mutation flow.addComponent
SrvAddCompInFlow(r, flow_id, alias, target_comp_version_id) ==
    [r EXCEPT !.flows[flow_id].members =
                  Append(@, [uid |-> NewUid(r), alias |-> alias,
                             version |-> target_comp_version_id, cfg |-> NoneStr]),
              !.nextUid = @ + 1]

\* mutation configs.update: one more configuration, under its core name.
SrvCreateCfgStandalone(r, core_name) ==
    [r EXCEPT !.cfgs = Append(@, [uid |-> NewUid(r), core_name |-> core_name]),
              !.nextUid = @ + 1]

\* mutation flow.inFlowComponent.updateConfig
SrvSetInFlowComponentCfg(r, flow_id, comp_id, cfg_core_id) ==
    [r EXCEPT !.flows[flow_id].members =
                  [i \in DOMAIN @ |->
                      IF @[i].uid = comp_id THEN [@[i] EXCEPT !.cfg = cfg_core_id]
                      ELSE @[i]]]

\* mutation flow.linkComponents
SrvLink(r, flow_id, edge) ==
    [r EXCEPT !.flows[flow_id].links = Append(@, edge)]

\* mutation flow.addSchemaAlias
SrvAddSchemaAlias(r, flow_id, alias) ==
    [r EXCEPT !.flows[flow_id].schemaAliases = Append(@, alias)]

\* mutation schemas.create
SrvCreateScheme(r, core_id) == [r EXCEPT !.schemas = @ \cup {core_id}]

\* The content objects of a kind under a version, oldest first.
ContentOf(r, version_id, kind) ==
    SelectSeq(r.versions[version_id].content, LAMBDA c : c.kind = kind)

\* The component a version belongs to.
CompOfVersion(r, version_id) == r.branches[r.versions[version_id].branch].comp

\* One edge of flow.inFlowComponents of the query.
RawInFlowComponent(r, flow_id, m) ==
    LET comp_id == CompOfVersion(r, m.version)
        type == r.comps[comp_id].type
        under(kind) == ContentOf(r, m.version, kind)
        starts == SelectSeq(r.flows[flow_id].links, LAMBDA e : e.target_id = m.uid)
        one(kind) == IF type = kind /\ under(kind) # <<>>
                     THEN JObj([details |-> JObj([uid |-> JStr(Last(under(kind)).uid)])])
                     ELSE JNull
    IN JObj([node |-> JObj([
         prev |-> JObj([edges |-> JList(
             [i \in DOMAIN starts |->
                 JObj([node |-> JObj([details |->
                     JObj([uid |-> JStr(starts[i].start_id)])])])])]),
         details |-> JObj([uid |-> JStr(m.uid), alias |-> JStr(m.alias)]),
         component |-> JObj([details |-> JObj([uid |-> JStr(comp_id),
                               reverseId |-> JStr(r.comps[comp_id].reverse_id)])]),
         cfg |-> IF m.cfg = NoneStr THEN JNull
                 ELSE JObj([details |-> JObj([uid |-> JStr(m.cfg),
                               coreId |-> JStr(m.cfg), coreName |-> JStr(m.cfg),
                               cfgJson |-> JNull, readableName |-> JStr(m.cfg)])]),
         app |-> IF type = "app" /\ under("app") # <<>>
                 THEN JObj([details |-> JObj([uid |-> JStr(Last(under("app")).uid)]),
                            op |-> JObj([edges |-> JList(<<>>)])])
                 ELSE JNull,
         collectionAlias |-> one("collection"),
         flow |-> one("flow")])])

\* activeBranchVersion of the query.
RawVersion(r, version_id) ==
    LET v == r.versions[version_id]
        under(kind) == ContentOf(r, version_id, kind)
        uidOf(kind) == JStr(Last(under(kind)).uid)
    IN JObj([
         details |-> JObj([uid |-> JStr(version_id),
                           readableName |-> JStr(v.readableName),
                           updatesMarkdown |-> JStr(v.updatesMarkdown)]),
         collection |-> IF under("collection") = <<>> THEN JNull
                        ELSE JObj([details |-> JObj([uid |-> uidOf("collection"),
                                                     coreId |-> uidOf("collection")])]),
         asset |-> IF under("asset") = <<>> THEN JNull
                   ELSE JObj([details |-> JObj([uid |-> uidOf("asset"),
                                                corePath |-> JStr(<<"path">>)]),
                              downloadUrl |-> JNull, uploadUrl |-> JNull]),
         flow |-> IF under("flow") = <<>> THEN JNull
                  ELSE LET flow_id == Last(under("flow")).uid
                           ms == r.flows[flow_id].members
                       IN JObj([details |-> JObj([uid |-> JStr(flow_id)]),
                                inFlowComponents |-> JObj([edges |-> JList(
                                    [i \in DOMAIN ms |->
                                        RawInFlowComponent(r, flow_id, ms[i])])])]),
         app |-> IF under("app") = <<>> THEN JNull
                 ELSE JObj([details |-> JObj([uid |-> uidOf("app"),
                                              containerRef |-> JNull,
                                              containerUser |-> JNull,
                                              containerToken |-> JNull]),
                            avOp |-> JObj([edges |-> JList(<<>>)])])])

\* query component(reverseId): null when no component has the reverse id.
SrvGetComponentByReverseId(r, reverse_id) ==
    LET found == {c \in DOMAIN r.comps : r.comps[c].reverse_id = reverse_id}
    IN IF found = {} THEN JNull
       ELSE LET uid == CHOOSE c \in found :
                           \A d \in found : DigitsToInt(Tail(c)) <= DigitsToInt(Tail(d))
                c == r.comps[uid]
            IN JObj([
                 details |-> JObj([uid |-> JStr(uid), name |-> JStr(c.reverse_id),
                                   reverseId |-> JStr(c.reverse_id),
                                   type |-> JStr(<<c.type>>),
                                   descriptionMarkdown |-> JNull]),
                 activeBranch |->
                     IF c.activeBranch = NoneStr THEN JNull
                     ELSE JObj([details |-> JObj([
                              uid |-> JStr(c.activeBranch),
                              name |-> JStr(r.branches[c.activeBranch].name),
                              status |-> JNull])]),
                 activeBranchVersion |->
                     IF c.activeBranch = NoneStr
                        \/ r.branches[c.activeBranch].activeVersion = NoneStr
                     THEN JNull
                     ELSE RawVersion(r, r.branches[c.activeBranch].activeVersion)])

\* query component.branches(name): the branches of that name, oldest first.
SrvBranchesByName(r, component_id, branch_name) ==
    SelectSeq(r.comps[component_id].branches,
              LAMBDA b : r.branches[b].name = branch_name)

(***************************************************************************)
(* SpaceOps: the typed side of the gateway                                 *)
(***************************************************************************)
\* One more element of a list comprehension: the first failure is raised.
Collect(first, rest) ==
    IF ~IsOk(first) THEN first
    ELSE IF IsOk(rest) THEN Ok(<<first.value>> \o rest.value) ELSE rest

\* [self._parse_in_flow_component(x) for x in edges]
RECURSIVE ParseInFlowComponents(_)
ParseInFlowComponents(edges) ==
    IF edges = <<>> THEN Ok(<<>>)
    ELSE Collect(parse_in_flow_component(Head(edges)),
                 ParseInFlowComponents(Tail(edges)))

\* `version and "k" in version and version["k"]`
VersionHas(version, k) ==
    Truthy(version) /\ k \in DOMAIN version.f /\ Truthy(version.f[k])

\* The in-flow components of the version's flow.
ParseFlowEdges(flowEdges) ==
    IF ~IsOk(flowEdges) THEN flowEdges
    ELSE IF flowEdges.value.t # "list" THEN Raised("TypeError")
    ELSE ParseInFlowComponents(flowEdges.value.l)

\* LoadedComponentSchema(**base_data) of the parts read from the response,
\* the first failure among them raised instead.
LoadedComponent(v, vuid, vname, vmd, uid, name, reverse_id, branch, description, app, flowUid, components, collection, asset) ==
    IF Truthy(v) /\ ~IsOk(vuid) THEN vuid
    ELSE IF Truthy(v) /\ ~IsOk(vname) THEN vname
    ELSE IF Truthy(v) /\ ~IsOk(vmd) THEN vmd
    ELSE IF Truthy(v) /\ ~IsStr(vuid.value) THEN Raised("ValidationError")
    ELSE IF ~IsOk(uid) THEN uid
    ELSE IF ~IsOk(name) THEN name
    ELSE IF ~IsOk(reverse_id) THEN reverse_id
    ELSE IF ~IsOk(branch) THEN branch
    ELSE IF branch.value.t # "obj" THEN Raised("TypeError")
    ELSE IF ~IsOk(description) THEN description
    ELSE IF ~IsOk(app) THEN app
    ELSE IF ~IsOk(flowUid) THEN flowUid
    ELSE IF ~IsOk(components) THEN components
    ELSE IF ~IsOk(collection) THEN collection
    ELSE IF ~IsOk(asset) THEN asset
    ELSE IF ~(IsStr(uid.value) /\ IsStr(reverse_id.value)
              /\ "uid" \in DOMAIN branch.value.f /\ IsStr(branch.value.f["uid"]))
    THEN Raised("ValidationError")
    ELSE Ok(JObj([
           uid |-> uid.value,
           name |-> name.value,
           reverse_id |-> reverse_id.value,
           branch |-> branch.value,
           version |-> IF Truthy(v)
                       THEN JObj([uid |-> vuid.value,
                                  readable_name |-> vname.value,
                                  updates_markdown |-> vmd.value])
                       ELSE JNull,
           description |-> description.value,
           app |-> IF Truthy(app.value) THEN JObj([uid |-> app.value]) ELSE JNull,
           flow |-> IF Truthy(flowUid.value)
                    THEN JObj([uid |-> flowUid.value,
                               components |-> JList(components.value)])
                    ELSE JNull,
           collection |-> IF Truthy(collection.value)
                          THEN JObj([uid |-> collection.value]) ELSE JNull,
           asset |-> IF Truthy(asset.value)
                     THEN JObj([uid |-> asset.value]) ELSE JNull]))

\* The body of _parse_comp once comp["activeBranchVersion"] is read.
ParseVersion(comp, version) ==
    IF ~IsOk(version) THEN version
    ELSE LoadedComponent(
            version.value,
            Path(version.value, <<"details", "uid">>),
            Path(version.value, <<"details", "readableName">>),
            Path(version.value, <<"details", "updatesMarkdown">>),
            Path(comp, <<"details", "uid">>),
            Path(comp, <<"details", "name">>),
            Path(comp, <<"details", "reverseId">>),
            Path(comp, <<"activeBranch", "details">>),
            Path(comp, <<"details", "descriptionMarkdown">>),
            IF VersionHas(version.value, "app")
            THEN Path(version.value, <<"app", "details", "uid">>) ELSE Ok(JNull),
            IF VersionHas(version.value, "flow")
            THEN Path(version.value, <<"flow", "details", "uid">>) ELSE Ok(JNull),
            ParseFlowEdges(
                IF VersionHas(version.value, "flow")
                THEN Path(version.value, <<"flow", "inFlowComponents", "edges">>)
                ELSE Ok(JList(<<>>))),
            IF VersionHas(version.value, "collection")
            THEN Path(version.value, <<"collection", "details", "uid">>)
            ELSE Ok(JNull),
            IF VersionHas(version.value, "asset")
            THEN Path(version.value, <<"asset", "details", "uid">>) ELSE Ok(JNull))

\* _parse_comp(comp), comp a dict.
parse_comp(comp) == ParseVersion(comp, Sub(comp, "activeBranchVersion"))

\* `if not comp: return None` / `comp = self._parse_comp(comp)`
ParsedOrNone(comp) == IF ~Truthy(comp) THEN Ok(JNull) ELSE parse_comp(comp)

\* get_parsed_component_by_reverse_id(reverse_id) against the remote state r.
get_parsed_component_by_reverse_id(r, reverse_id) ==
    ParsedOrNone(SrvGetComponentByReverseId(r, reverse_id))

\* get_branch_by_name(component_id, branch_name): the first edge, or None.
get_branch_by_name(r, component_id, branch_name) ==
    LET edges == SrvBranchesByName(r, component_id, branch_name)
    IN IF edges = <<>> THEN JNull
       ELSE LET b == r.branches[edges[1]]
            IN JObj([uid |-> JStr(edges[1]),
                     name |-> JStr(b.name),
                     active_version |->
                         IF b.activeVersion = NoneStr THEN JNull
                         ELSE JObj([uid |-> JStr(b.activeVersion),
                                    readable_name |->
                                        JStr(r.versions[b.activeVersion].readableName)])])

(***************************************************************************)
(* ComponentSchema: the descriptions handed to component()                 *)
(***************************************************************************)
\* Python's None where an int is expected (the orders drawn are >= 0).
NoneInt == -1

\* `if s:` for a str | None.
HasText(s) == s # NoneStr /\ s # <<>>

\* A str | None field of a parsed object as a string of the model.
StrOf(j) == IF j.t = "null" THEN NoneStr ELSE j.s

VersionModes == {"default", "major", "minor", "patch", "override"}

\* constants.DEFAULT_BRANCH_NAME and constants.DEFAULT_VERSION_NAME (the
\* constants module is not among the sources; the values stand for it).
DefaultBranchName == <<"m", "a", "i", "n">>
DefaultVersionName == <<"0", ".", "0", ".", "1">>
DefaultVersionUpdateMd == <<"m", "d">>

\* self.space.org_id(): the organization the session acts for.
OrgId == <<"o", "r", "g">>

\* A ComponentSchema with one payload; version_name is version.readable_name
\* and branch_name is branch.name (NoneStr when the object or field is None).
Description(reverse_id, payload, version_name, branch_name, required_schema, tags, flow) ==
    [reverse_id |-> reverse_id, payload |-> payload, version_name |-> version_name,
     branch_name |-> branch_name, required_schema |-> required_schema,
     tags |-> tags, flow |-> flow]

\* An InFlowDependency, a Terminal, an InFlowComponentSchema (schema/flow.py).
\* A dependency is one item of the member's depends mapping: key is the key
\* it is stored under (the alias, unless DependencyUnder says otherwise).
Dependency(alias, terminals, order, schema_aliases) ==
    [key |-> alias, alias |-> alias, terminals |-> terminals, order |-> order,
     schema_aliases |-> schema_aliases]
DependencyUnder(key, dep) == [dep EXCEPT !.key = key]

Terminal(src, target, order) == [src |-> src, target |-> target, order |-> order]

\* active_cfg of a member: absent, the core id of a configuration (a str), or
\* a CfgSchema to register first.
NoCfg == [kind |-> "none", core_name |-> NoneStr]
CfgRef(core_id) == [kind |-> "str", core_name |-> core_id]
CfgSchema(core_name) == [kind |-> "schema", core_name |-> core_name]

InFlowComponent(reverse_id, alias, depends, active_cfg) ==
    [reverse_id |-> reverse_id, alias |-> alias, depends |-> depends,
     active_cfg |-> active_cfg]

\* comp.type()
TypeOf(comp) == comp.payload

\* The LoadedComponentSchema handle_reverse_id found remotely, read as the
\* ComponentSchema it is passed on as.
DescriptionOfLoaded(loaded) ==
    LET l == loaded.f
    IN Description(l.reverse_id.s,
                   IF l.app.t # "null" THEN "app"
                   ELSE IF l.flow.t # "null" THEN "flow"
                   ELSE IF l.collection.t # "null" THEN "collection"
                   ELSE IF l.asset.t # "null" THEN "asset" ELSE "none",
                   IF l.version.t = "null" THEN NoneStr
                   ELSE StrOf(l.version.f.readable_name),
                   StrOf(l.branch.f.name), <<>>, <<>>, <<>>)

(***************************************************************************)
(* SlowComponentManager.component as a machine                             *)
(*   m = [remote, provider, stack, log, out]: the stack holds one frame    *)
(*   per component() call in progress (a flow member is reconciled by a    *)
(*   nested call); every step issues the gateway calls of one stretch of   *)
(*   the code and appends them to the log; out is the outcome of the       *)
(*   outermost call once the stack is empty.                               *)
(*   o = [activate, noFlow]: what the service, which the code does not     *)
(*   control, answers: whether a further branch becomes the active one,    *)
(*   and how a version without a flow is reported.                         *)
(***************************************************************************)
NewFrame(comp, mode) ==
    [pc |-> "lookup", comp |-> comp, mode |-> mode, loaded |-> JNull,
     i |-> 1, j |-> 1, version_name |-> comp.version_name,
     old_version_name |-> NoneStr, branch_id |-> NoneStr, version_id |-> NoneStr,
     new_version_id |-> NoneStr, comp_id |-> NoneStr, flow_id |-> NoneStr,
     loaded_comps |-> <<>>, loaded_comp |-> JNull]

Top(m) == m.stack[Len(m.stack)]
SetTop(m, f) == [m EXCEPT !.stack[Len(m.stack)] = f]
Goto(m, f, pc) == SetTop(m, [f EXCEPT !.pc = pc])

\* One gateway call: the SpaceOps method, the nesting depth of the
\* component() call that issued it, and the arguments that matter.
Call(m, op, args) == [op |-> op, depth |-> Len(m.stack), args |-> args]

\* Logged with the failed call issued a second time.
Logged_RetriesOnce(m, entries) ==
    IF m.failed THEN m
    ELSE IF m.failAt > Len(m.log) /\ m.failAt <= Len(m.log) + Len(entries)
    THEN LET issued == SubSeq(entries, 1, m.failAt - Len(m.log))
         IN [m EXCEPT !.log = @ \o issued \o <<Last(issued)>>, !.failed = TRUE]
    ELSE [m EXCEPT !.log = @ \o entries]

\* The calls are issued one after the other through self.space; the call at
\* position failAt of the reconciliation raises in the gateway, and the
\* exception leaves nothing after it to be issued.
Logged(m, entries) ==
    IF m.failed THEN m
    ELSE IF m.failAt > Len(m.log) /\ m.failAt <= Len(m.log) + Len(entries)
    THEN [m EXCEPT !.log = @ \o SubSeq(entries, 1, m.failAt - Len(m.log)),
                   !.failed = TRUE]
    ELSE [m EXCEPT !.log = @ \o entries]

\* The remote state r the call logged last leaves when it succeeded.
Wrote(m, r) == IF m.failed THEN m ELSE [m EXCEPT !.remote = r]

\* The exception of a failed gateway call: nothing in the code catches it.
Settle(m) ==
    IF m.failed THEN [m EXCEPT !.stack = <<>>, !.out = Raised("TransportError")]
    ELSE m

\* return value: to the caller, or to the _flow2version frame that called.
Ret(m, value) ==
    IF Len(m.stack) = 1
    THEN [m EXCEPT !.stack = <<>>, !.out = Ok(value)]
    ELSE LET n == Len(m.stack) - 1
         IN [m EXCEPT !.stack = [SubSeq(m.stack, 1, n) EXCEPT ![n].loaded_comp = value]]

\* An exception: nothing in the code catches it, it ends every frame.
Raise(m, e) == [m EXCEPT !.stack = <<>>, !.out = Raised(e)]

\* The methods of SpaceOps that change the remote state.
WriteOps ==
    {"create_scheme", "update_component", "create_use_case", "attach_use_case",
     "create_tag", "attach_tag_to_comp", "add_comp_to_org", "create_component",
     "create_branch", "create_version", "create_app_in_version",
     "create_flow_in_version", "create_collection", "create_collection_in_version",
     "create_asset_in_version", "add_comp_in_flow", "create_cfg_standalone",
     "set_in_flow_component_cfg", "link", "add_schema_alias"}

\* str(uuid.uuid4()) inside a reconciliation: a token no earlier call returned.
FreshUuid(r) == <<"u", "-">> \o PyStr(r.nextUid)

\* attach_metadata(comp_id, comp): the calls it issues.
AttachMetadataCalls(m, comp_id, comp) ==
    IF comp.tags = <<>> THEN <<>>
    ELSE [i \in DOMAIN comp.tags |-> Call(m, "create_tag", [title |-> comp.tags[i]])]
         \o <<Call(m, "attach_tag_to_comp", [comp_id |-> comp_id])>>

\* component2version: the payload decides the realization.
ContentPc(comp) ==
    CASE comp.payload = "app" -> "app2version"
      [] comp.payload = "flow" -> "flow2version"
      [] comp.payload = "collection" -> "collection_alias2version"
      [] comp.payload = "asset" -> "asset2version"

\* Decide with DEFAULT treated as a PATCH bump of an existing component.
Decide_DefaultBumps(m, f) ==
    IF Truthy(f.loaded)
    THEN Goto(m, IF f.mode = "default" THEN [f EXCEPT !.mode = "patch"] ELSE f,
              "update_component")
    ELSE Goto(m, f, "create_component")

\* Lines 325-328 and 361: what the lookup decides.
Decide(m, f) ==
    IF Truthy(f.loaded)
    THEN IF f.mode = "default" THEN Ret(m, f.loaded)
         ELSE Goto(m, f, "update_component")
    ELSE Goto(m, f, "create_component")

\* Lines 309-310 and on, with what the lookup returned (or raised).
Looked(m, f, res) ==
    IF ~IsOk(res) THEN Raise(m, res.value[1])
    ELSE IF f.comp.required_schema # <<>>
    THEN Goto(m, [f EXCEPT !.loaded = res.value, !.i = 1], "create_schema")
    ELSE Decide(m, [f EXCEPT !.loaded = res.value, !.i = 1])

\* Lines 306-310: the lookup.
Lookup(m, o) ==
    Looked(Logged(m, <<Call(m, "get_parsed_component_by_reverse_id",
                            [reverse_id |-> Top(m).comp.reverse_id])>>),
           Top(m),
           get_parsed_component_by_reverse_id(m.remote, Top(m).comp.reverse_id))

\* CreateSchema that creates the schema whatever get_schema returned.
CreateSchema_AlwaysCreates(m, o) ==
    LET f == Top(m)
        core_id == f.comp.required_schema[f.i]
        m1 == Logged(m, <<Call(m, "get_schema", [core_id |-> core_id]),
                          Call(m, "create_scheme", [core_id |-> core_id])>>)
        m2 == Wrote(m1, SrvCreateScheme(m1.remote, core_id))
        f1 == [f EXCEPT !.i = @ + 1]
    IN IF f.i < Len(f.comp.required_schema)
       THEN SetTop(m2, f1)
       ELSE Decide(m2, f1)

\* _create_schema: one turn of its loop.
CreateSchema(m, o) ==
    LET f == Top(m)
        core_id == f.comp.required_schema[f.i]
        exists == core_id \in m.remote.schemas
        m1 == Logged(m, <<Call(m, "get_schema", [core_id |-> core_id])>>
                        \o IF exists THEN <<>>
                           ELSE <<Call(m, "create_scheme", [core_id |-> core_id])>>)
        m2 == IF exists THEN m1
              ELSE Wrote(m1, SrvCreateScheme(m1.remote, core_id))
        f1 == [f EXCEPT !.i = @ + 1]
    IN IF f.i < Len(f.comp.required_schema)
       THEN SetTop(m2, f1)
       ELSE Decide(m2, f1)

\* Lines 356-358 with what increment_version returned (or raised).
Incremented(m, f, r) ==
    IF ~IsOk(r) THEN Raise(m, r.value[1])
    ELSE Goto(m, [f EXCEPT !.version_name = r.value], "create_version")

\* VersionDecision with OVERRIDE creating a version like the bump modes.
VersionDecision_OverrideCreatesVersion(m, f) ==
    IF HasText(f.version_name) THEN Goto(m, f, "create_version")
    ELSE Goto(m, [f EXCEPT !.version_name = FreshUuid(m.remote)], "create_version")

\* VersionDecision that increments the previous name whatever the
\* description gives.
VersionDecision_AlwaysIncrements(m, f) ==
    IF f.mode # "override"
    THEN Incremented(m, f, increment_version(f.old_version_name, f.mode,
                                             FreshUuid(m.remote)))
    ELSE IF f.loaded.f.version.t = "null" THEN Raise(m, "AttributeError")
         ELSE LET uid == f.loaded.f.version.f.uid.s
              IN Goto(m, [f EXCEPT !.version_id = uid, !.new_version_id = uid],
                      ContentPc(f.comp))

\* Lines 354-360: the version the content goes to.
VersionDecision(m, f) ==
    IF f.mode # "override"
    THEN IF HasText(f.version_name) THEN Goto(m, f, "create_version")
         ELSE Incremented(m, f, increment_version(f.old_version_name, f.mode,
                                                  FreshUuid(m.remote)))
    ELSE IF f.loaded.f.version.t = "null" THEN Raise(m, "AttributeError")
         ELSE LET uid == f.loaded.f.version.f.uid.s
              IN Goto(m, [f EXCEPT !.version_id = uid, !.new_version_id = uid],
                      ContentPc(f.comp))

\* Lines 329-333 and 350-353: update_component, add_comp_to_org, and the
\* branch when the description names none.
UpdateComponent(m, o) ==
    LET f == Top(m)
        uid == f.loaded.f.uid.s
        m1 == Logged(m, <<Call(m, "update_component", [comp_id |-> uid])>>
                        \o AttachMetadataCalls(m, uid, f.comp)
                        \o <<Call(m, "add_comp_to_org", [comp_id |-> uid])>>)
    IN IF HasText(f.comp.branch_name) THEN Goto(m1, f, "get_branch_by_name")
       ELSE IF f.loaded.f.version.t = "null" THEN Raise(m1, "AttributeError")
       ELSE VersionDecision(m1,
                [f EXCEPT !.old_version_name = StrOf(f.loaded.f.version.f.readable_name),
                          !.branch_id = f.loaded.f.branch.f.uid.s])

\* GetBranchByName that never finds the branch.
GetBranchByName_NeverFinds(m, o) ==
    LET f == Top(m)
        uid == f.loaded.f.uid.s
        m1 == Logged(m, <<Call(m, "get_branch_by_name",
                               [component_id |-> uid, branch_name |-> f.comp.branch_name])>>)
    IN Goto(m1, f, "create_branch")

\* Lines 334-341: the branch of the name the description gives.
GetBranchByName(m, o) ==
    LET f == Top(m)
        uid == f.loaded.f.uid.s
        branch == get_branch_by_name(m.remote, uid, f.comp.branch_name)
        m1 == Logged(m, <<Call(m, "get_branch_by_name",
                               [component_id |-> uid, branch_name |-> f.comp.branch_name])>>)
    IN IF Truthy(branch)
       THEN VersionDecision(m1,
                [f EXCEPT !.branch_id = branch.f.uid.s,
                          !.old_version_name =
                              IF Truthy(branch.f.active_version)
                              THEN StrOf(branch.f.active_version.f.readable_name)
                              ELSE NoneStr])
       ELSE Goto(m1, f, "create_branch")

\* Lines 342-349: a new branch of an existing component.
CreateBranch(m, o) ==
    LET f == Top(m)
        uid == f.loaded.f.uid.s
        branch_id == NewUid(m.remote)
        m1 == Logged(m, <<Call(m, "create_branch",
                               [component_id |-> uid, name |-> f.comp.branch_name,
                                uid |-> branch_id])>>)
        m2 == Wrote(m1, SrvCreateBranch(m1.remote, uid, f.comp.branch_name,
                                        o.activate))
    IN VersionDecision(m2, [f EXCEPT !.branch_id = branch_id])

\* Lines 362-366: a new component and its metadata.
CreateComponent(m, o) ==
    LET f == Top(m)
        comp_id == NewUid(m.remote)
        m1 == Logged(m, <<Call(m, "create_component",
                               [reverse_id |-> f.comp.reverse_id,
                                type |-> TypeOf(f.comp), uid |-> comp_id])>>)
        m2 == Wrote(m1, SrvCreateComponent(m1.remote, f.comp.reverse_id,
                                           TypeOf(f.comp)))
        m3 == Logged(m2, AttachMetadataCalls(m, comp_id, f.comp))
    IN Goto(m3, [f EXCEPT !.comp_id = comp_id], "create_first_branch")

\* CreateFirstBranch with the default branch name whatever the description says.
CreateFirstBranch_IgnoresBranchName(m, o) ==
    LET f == Top(m)
        branch_id == NewUid(m.remote)
        m1 == Logged(m, <<Call(m, "create_branch",
                               [component_id |-> f.comp_id,
                                name |-> DefaultBranchName, uid |-> branch_id])>>)
        m2 == Wrote(m1, SrvCreateBranch(m1.remote, f.comp_id, DefaultBranchName,
                                        o.activate))
    IN Goto(m2, [f EXCEPT !.branch_id = branch_id,
                          !.version_name = IF HasText(f.version_name)
                                           THEN @ ELSE DefaultVersionName],
            "create_version")

\* CreateFirstBranch with the version of a creation named by the bump mode.
CreateFirstBranch_Increments(m, o) ==
    LET f == Top(m)
        branch_name == IF HasText(f.comp.branch_name)
                       THEN f.comp.branch_name ELSE DefaultBranchName
        branch_id == NewUid(m.remote)
        m1 == Logged(m, <<Call(m, "create_branch",
                               [component_id |-> f.comp_id, name |-> branch_name,
                                uid |-> branch_id])>>)
        m2 == Wrote(m1, SrvCreateBranch(m1.remote, f.comp_id, branch_name,
                                        o.activate))
    IN Goto(m2, [f EXCEPT !.branch_id = branch_id,
                          !.version_name =
                              IF HasText(f.version_name) THEN @
                              ELSE IF f.mode \in {"major", "minor", "patch"}
                              THEN increment_version(NoneStr, f.mode,
                                                     FreshUuid(m.remote)).value
                              ELSE DefaultVersionName],
            "create_version")

\* Lines 367-380: the first branch of a new component.
CreateFirstBranch(m, o) ==
    LET f == Top(m)
        branch_name == IF HasText(f.comp.branch_name)
                       THEN f.comp.branch_name ELSE DefaultBranchName
        branch_id == NewUid(m.remote)
        m1 == Logged(m, <<Call(m, "create_branch",
                               [component_id |-> f.comp_id, name |-> branch_name,
                                uid |-> branch_id])>>)
        m2 == Wrote(m1, SrvCreateBranch(m1.remote, f.comp_id, branch_name,
                                        o.activate))
    IN Goto(m2, [f EXCEPT !.branch_id = branch_id,
                          !.version_name = IF HasText(f.version_name)
                                           THEN @ ELSE DefaultVersionName],
            "create_version")

\* Lines 382-395: the new version.
CreateVersion(m, o) ==
    LET f == Top(m)
        uid == NewUid(m.remote)
        m1 == Logged(m, <<Call(m, "create_version",
                               [branch_id |-> f.branch_id,
                                readable_name |-> f.version_name, uid |-> uid])>>)
        m2 == Wrote(m1, SrvCreateVersion(m1.remote, f.branch_id, f.version_name,
                                         DefaultVersionUpdateMd))
    IN Goto(m2, [f EXCEPT !.new_version_id = uid], ContentPc(f.comp))

\* `return` of what a lookup returned (or raised).
Returned(m, res) ==
    IF IsOk(res) THEN Ret(m, res.value) ELSE Raise(m, res.value[1])

\* The closing get_parsed_component_by_reverse_id of every realization.
ReturnParsed(m, f) ==
    Returned(Logged(m, <<Call(m, "get_parsed_component_by_reverse_id",
                              [reverse_id |-> f.comp.reverse_id])>>),
             get_parsed_component_by_reverse_id(m.remote, f.comp.reverse_id))

\* One content object of the payload's kind under the version, then the
\* closing lookup.
RealizeContent(m, f, op, kind) ==
    LET m1 == Logged(m, <<Call(m, op, [version_id |-> f.new_version_id,
                                       uid |-> NewUid(m.remote)])>>)
        m2 == Wrote(m1, SrvAddContent(m1.remote, f.new_version_id, kind))
    IN ReturnParsed(m2, f)

\* _asset2version
Asset2Version(m, o) ==
    RealizeContent(m, Top(m), "create_asset_in_version", "asset")

\* _app2version (of an app without configurations and operations)
App2Version(m, o) ==
    RealizeContent(m, Top(m), "create_app_in_version", "app")

\* _collection_alias2version (of a collection whose documents are given)
CollectionAlias2Version(m, o) ==
    LET m1 == Logged(m, <<Call(m, "create_collection", [host_id |-> <<"host">>])>>)
    IN RealizeContent(m1, Top(m), "create_collection_in_version", "collection")

\* NextDep that hands every dependency on, with an alias or without one.
NextDep_KeepsUnaliased(m, f) ==
    LET flow == f.comp.flow
        all == UNION {{<<i, j>> : j \in DOMAIN flow[i].depends} : i \in DOMAIN flow}
        pending == {p \in all : p[1] > f.i \/ (p[1] = f.i /\ p[2] >= f.j)}
    IN IF pending = {} THEN Goto(m, f, "flow_done")
       ELSE LET p == CHOOSE p \in pending : \A q \in pending :
                         p[1] < q[1] \/ (p[1] = q[1] /\ p[2] <= q[2])
            IN Goto(m, [f EXCEPT !.i = p[1], !.j = p[2]], "link")

\* Lines 178-183: the next dependency the second pass handles, from member
\* i, dependency j on; members without dependencies and dependencies
\* without an alias are skipped.
NextDep(m, f) ==
    LET flow == f.comp.flow
        all == UNION {{<<i, j>> : j \in DOMAIN flow[i].depends} : i \in DOMAIN flow}
        pending == {p \in all :
                       /\ HasText(flow[p[1]].depends[p[2]].alias)
                       /\ (p[1] > f.i \/ (p[1] = f.i /\ p[2] >= f.j))}
    IN IF pending = {} THEN Goto(m, f, "flow_done")
       ELSE LET p == CHOOSE p \in pending : \A q \in pending :
                         p[1] < q[1] \/ (p[1] = q[1] /\ p[2] <= q[2])
            IN Goto(m, [f EXCEPT !.i = p[1], !.j = p[2]], "link")

\* Line 132: the next member of the first pass, or on to the second pass.
NextMember(m, f) ==
    IF f.i <= Len(f.comp.flow) THEN Goto(m, f, "handle_reverse_id")
    ELSE NextDep(m, [f EXCEPT !.i = 1, !.j = 1])

\* Lines 128-131: the flow under the version.
Flow2Version(m, o) ==
    LET f == Top(m)
        under == ContentOf(m.remote, f.new_version_id, "flow")
        m1 == Logged(m, <<Call(m, "get_flow_by_version_id",
                               [version_id |-> f.new_version_id])>>)
    IN IF under # <<>>
       THEN NextMember(m1, [f EXCEPT !.flow_id = Last(under).uid, !.i = 1])
       ELSE IF o.noFlow = "null" THEN Raise(m1, "TypeError")
       ELSE Goto(m1, f, "create_flow_in_version")

\* Line 130
CreateFlowInVersion(m, o) ==
    LET f == Top(m)
        uid == NewUid(m.remote)
        m1 == Logged(m, <<Call(m, "create_flow_in_version",
                               [version_id |-> f.new_version_id, uid |-> uid])>>)
        m2 == Wrote(m1, SrvCreateFlowInVersion(m1.remote, f.new_version_id))
    IN NextMember(m2, [f EXCEPT !.flow_id = uid, !.i = 1])

\* Lines 96-99: the member looked up remotely (or the lookup raised).
HandleRemote(m, res) ==
    IF ~IsOk(res) THEN Raise(m, res.value[1])
    ELSE IF ~Truthy(res.value) THEN Raise(m, "ValueError")
    ELSE [m EXCEPT !.stack =
             Append(@, NewFrame(DescriptionOfLoaded(res.value), "default"))]

\* HandleReverseId that asks the remote first and the provider after it.
HandleReverseId_RemoteFirst(m, o) ==
    LET f == Top(m)
        reverse_id == f.comp.flow[f.i].reverse_id
        waiting == Goto(m, f, "add_comp_in_flow")
        looked == Logged(waiting, <<Call(m, "get_parsed_component_by_reverse_id",
                                         [reverse_id |-> reverse_id])>>)
        res == get_parsed_component_by_reverse_id(m.remote, reverse_id)
    IN IF ~IsOk(res) THEN Raise(looked, res.value[1])
       ELSE IF Truthy(res.value)
       THEN [looked EXCEPT !.stack =
                Append(@, NewFrame(DescriptionOfLoaded(res.value), "default"))]
       ELSE IF m.provider # <<>> /\ reverse_id \in DOMAIN m.provider
       THEN [looked EXCEPT !.stack =
                Append(@, NewFrame(m.provider[reverse_id], "default"))]
       ELSE Raise(looked, "ValueError")

\* HandleReverseId with the member reconciled in MINOR mode.
HandleReverseId_Minor(m, o) ==
    LET f == Top(m)
        reverse_id == f.comp.flow[f.i].reverse_id
        waiting == Goto(m, f, "add_comp_in_flow")
        looked == Logged(waiting, <<Call(m, "get_parsed_component_by_reverse_id",
                                         [reverse_id |-> reverse_id])>>)
        res == get_parsed_component_by_reverse_id(m.remote, reverse_id)
    IN IF m.provider # <<>> /\ reverse_id \in DOMAIN m.provider
       THEN [waiting EXCEPT !.stack =
                Append(@, NewFrame(m.provider[reverse_id], "minor"))]
       ELSE IF ~IsOk(res) THEN Raise(looked, res.value[1])
       ELSE IF ~Truthy(res.value) THEN Raise(looked, "ValueError")
       ELSE [looked EXCEPT !.stack =
                Append(@, NewFrame(DescriptionOfLoaded(res.value), "minor"))]

\* Lines 133-136 with handle_reverse_id: the member's description, local
\* before remote, handed to a nested component(..., DEFAULT).
HandleReverseId(m, o) ==
    LET f == Top(m)
        reverse_id == f.comp.flow[f.i].reverse_id
        waiting == Goto(m, f, "add_comp_in_flow")
    IN IF m.provider # <<>> /\ reverse_id \in DOMAIN m.provider
       THEN [waiting EXCEPT !.stack =
                Append(@, NewFrame(m.provider[reverse_id], "default"))]
       ELSE HandleRemote(
                Logged(waiting, <<Call(m, "get_parsed_component_by_reverse_id",
                                       [reverse_id |-> reverse_id])>>),
                get_parsed_component_by_reverse_id(m.remote, reverse_id))

\* Lines 137-166: the member is added to the flow. The members assembled
\* here declare no app part (selected_op is None); the selection itself is
\* SelectedOp.
AddCompInFlow(m, o) ==
    LET f == Top(m)
        member == f.comp.flow[f.i]
        loaded_comp == f.loaded_comp
    IN IF ~Truthy(loaded_comp) THEN Raise(m, "AttributeError")
       ELSE IF loaded_comp.f.version.t = "null" THEN Raise(m, "AttributeError")
       ELSE
       LET version_id == loaded_comp.f.version.f.uid.s
           comp_in_flow_id == NewUid(m.remote)
           m1 == Logged(m, <<Call(m, "add_comp_in_flow",
                                  [flow_id |-> f.flow_id, alias |-> member.alias,
                                   target_comp_version_id |-> version_id,
                                   uid |-> comp_in_flow_id])>>)
           m2 == Wrote(m1, SrvAddCompInFlow(m1.remote, f.flow_id, member.alias,
                                            version_id))
           f1 == [f EXCEPT !.loaded_comps =
                     (member.alias :> comp_in_flow_id) @@ @]
       IN IF member.active_cfg.kind # "none"
          THEN Goto(m2, f1, "set_in_flow_component_cfg")
          ELSE NextMember(m2, [f1 EXCEPT !.i = @ + 1])

\* Lines 167-177: the member's active configuration.
SetInFlowComponentCfg(m, o) ==
    LET f == Top(m)
        member == f.comp.flow[f.i]
        cfg == member.active_cfg.core_name
        comp_id == f.loaded_comps[member.alias]
        m1 == IF member.active_cfg.kind = "schema"
              THEN Logged(m, <<Call(m, "create_cfg_standalone",
                                    [core_name |-> cfg, uid |-> NewUid(m.remote)])>>)
              ELSE m
        m2 == IF member.active_cfg.kind = "schema"
              THEN Wrote(m1, SrvCreateCfgStandalone(m1.remote, cfg))
              ELSE m1
        m3 == Logged(m2, <<Call(m, "set_in_flow_component_cfg",
                                [flow_id |-> f.flow_id, comp_id |-> comp_id,
                                 cfg_core_id |-> cfg])>>)
        m4 == Wrote(m3, SrvSetInFlowComponentCfg(m3.remote, f.flow_id, comp_id, cfg))
    IN NextMember(m4, [f EXCEPT !.i = @ + 1])

\* EdgesOf with the two ends of every edge exchanged.
EdgesOf_SwapsEnds(dep, start_id, target_id) ==
    IF dep.terminals # <<>>
    THEN [k \in DOMAIN dep.terminals |->
            LET terminal == dep.terminals[k]
            IN [start_id |-> target_id, target_id |-> start_id,
                start_terminal_id |-> terminal.src,
                target_terminal_id |-> terminal.target,
                order |-> IF terminal.order # NoneInt /\ terminal.order # 0
                          THEN terminal.order ELSE dep.order]]
    ELSE <<[start_id |-> target_id, target_id |-> start_id,
            start_terminal_id |-> NoneStr, target_terminal_id |-> NoneStr,
            order |-> dep.order]>>

\* The edges one dependency asks for: one per terminal, or a single one.
EdgesOf(dep, start_id, target_id) ==
    IF dep.terminals # <<>>
    THEN [k \in DOMAIN dep.terminals |->
            LET terminal == dep.terminals[k]
            IN [start_id |-> start_id, target_id |-> target_id,
                start_terminal_id |-> terminal.src,
                target_terminal_id |-> terminal.target,
                order |-> IF terminal.order # NoneInt /\ terminal.order # 0
                          THEN terminal.order ELSE dep.order]]
    ELSE <<[start_id |-> start_id, target_id |-> target_id,
            start_terminal_id |-> NoneStr, target_terminal_id |-> NoneStr,
            order |-> dep.order]>>

\* Lines 193-213: the link calls of the edges, one after the other.
RECURSIVE LinkAll(_, _, _, _)
LinkAll(m, depth, flow_id, edges) ==
    IF edges = <<>> THEN m
    ELSE LinkAll(Wrote(Logged(m, <<[op |-> "link", depth |-> depth,
                                    args |-> [flow_id |-> flow_id,
                                              edge |-> Head(edges)]]>>),
                       SrvLink(m.remote, flow_id, Head(edges))),
                 depth, flow_id, Tail(edges))

\* Lines 215-225: the add_schema_alias calls, one after the other.
RECURSIVE AddSchemaAliases(_, _, _, _)
AddSchemaAliases(m, depth, flow_id, aliases) ==
    IF aliases = <<>> THEN m
    ELSE AddSchemaAliases(
             Wrote(Logged(m, <<[op |-> "add_schema_alias", depth |-> depth,
                                args |-> [flow_id |-> flow_id,
                                          alias |-> Head(aliases)]]>>),
                   SrvAddSchemaAlias(m.remote, flow_id, Head(aliases))),
             depth, flow_id, Tail(aliases))

\* Lines 184-225: one dependency of the second pass.
Link(m, o) ==
    LET f == Top(m)
        member == f.comp.flow[f.i]
        dep == member.depends[f.j]
    IN IF dep.alias \notin DOMAIN f.loaded_comps THEN Raise(m, "KeyError")
       ELSE
       LET start_id == f.loaded_comps[dep.alias]
           target_id == f.loaded_comps[member.alias]
           edges == EdgesOf(dep, start_id, target_id)
           aliases == [k \in DOMAIN dep.schema_aliases |->
                          [start_id |-> start_id, target_id |-> target_id,
                           src_schema |-> dep.schema_aliases[k].src,
                           target_schema |-> dep.schema_aliases[k].target]]
           m1 == LinkAll(m, Len(m.stack), f.flow_id, edges)
           m2 == AddSchemaAliases(m1, Len(m.stack), f.flow_id, aliases)
       IN NextDep(m2, [f EXCEPT !.j = @ + 1])

\* Line 226
FlowDone(m, o) == ReturnParsed(m, Top(m))

\* The step the innermost call in progress takes next.
Step(m, o) ==
    LET pc == Top(m).pc
    IN CASE pc = "lookup" -> Lookup(m, o)
         [] pc = "create_schema" -> CreateSchema(m, o)
         [] pc = "update_component" -> UpdateComponent(m, o)
         [] pc = "get_branch_by_name" -> GetBranchByName(m, o)
         [] pc = "create_branch" -> CreateBranch(m, o)
         [] pc = "create_component" -> CreateComponent(m, o)
         [] pc = "create_first_branch" -> CreateFirstBranch(m, o)
         [] pc = "create_version" -> CreateVersion(m, o)
         [] pc = "app2version" -> App2Version(m, o)
         [] pc = "collection_alias2version" -> CollectionAlias2Version(m, o)
         [] pc = "asset2version" -> Asset2Version(m, o)
         [] pc = "flow2version" -> Flow2Version(m, o)
         [] pc = "create_flow_in_version" -> CreateFlowInVersion(m, o)
         [] pc = "handle_reverse_id" -> HandleReverseId(m, o)
         [] pc = "add_comp_in_flow" -> AddCompInFlow(m, o)
         [] pc = "set_in_flow_component_cfg" -> SetInFlowComponentCfg(m, o)
         [] pc = "link" -> Link(m, o)
         [] pc = "flow_done" -> FlowDone(m, o)

\* component(comp, version_mode) run to its return or its exception.
RECURSIVE Run(_, _)
Run(m, o) == IF m.stack = <<>> THEN m ELSE Run(Settle(Step(m, o)), o)

\* component(comp, version_mode) against a gateway whose call number failAt
\* fails (none for 0).
Faulty(r, prov, comp, mode, o, failAt) ==
    Run([remote |-> r, provider |-> prov, stack |-> <<NewFrame(comp, mode)>>,
         log |-> <<>>, out |-> NotCalled, failAt |-> failAt, failed |-> FALSE], o)

Reconcile(r, prov, comp, mode, o) == Faulty(r, prov, comp, mode, o, 0)

RECURSIVE StringsUpTo(_)
StringsUpTo(n) ==
    IF n = 0 THEN {<<>>}
    ELSE LET shorter == StringsUpTo(n - 1)
         IN shorter \cup {Append(s, c) : s \in {t \in shorter : Len(t) = n - 1},
                                         c \in Alphabet}


NoJson == JNull

ParseIdle ==
    /\ pin = NoJson
    /\ pout = NotCalled

MgrIdle ==
    /\ remote = EmptyRemote
    /\ log = <<>>
    /\ calls = <<>>
    /\ provider = <<>>
    /\ menu = {}
    /\ left = 0
    /\ procs = <<>>

\* Identifiers of more than three segments.
LongVersions ==
    {<<"1", ".", "9", ".", "9", ".", "9">>,
     <<"9", ".", "1", ".", "1", ".", "1", ".", "9">>}

InitIncr ==
    /\ MgrIdle
    /\ ParseIdle
    /\ fin \in [previous : StringsUpTo(MaxLen) \cup {NoneStr} \cup UUIDS
                                \cup LongVersions,
                 mode : Modes]
    /\ fout = NotCalled

IncrementVersion ==
    /\ fout = NotCalled
    /\ pin = NoJson
    /\ \E uuid \in UUIDS \ {fin.previous} :
         fout' = increment_version(fin.previous, fin.mode, uuid)
    /\ UNCHANGED <<mgr, fin, pin, pout>>

NextIncr == IncrementVersion

SpecIncr == InitIncr /\ [][NextIncr]_vars

(***************************************************************************)
(* The active-op selection of a flow member (_get_ops and its call site)   *)
(***************************************************************************)
\* The positions of the ops of a sequence that are the first of their type.
FirstOfType(ops) ==
    {i \in DOMAIN ops : \A j \in 1..(i - 1) : ops[j].type # ops[i].type}

\* by_type.items(): the types of the ops in the order of their first
\* appearance, each with the ops of the type in their order.
RECURSIVE ByType(_, _)
ByType(ops, from) ==
    IF from > Len(ops) THEN <<>>
    ELSE IF from \in FirstOfType(ops)
    THEN <<[op_type |-> ops[from].type,
            ops |-> SelectSeq(ops, LAMBDA op : op.type = ops[from].type)]>>
         \o ByType(ops, from + 1)
    ELSE ByType(ops, from + 1)

\* _get_ops that keeps every available op, whatever was declared.
get_ops_KeepsAll(av, raw) ==
    LET by_type == ByType(av, 1)
    IN [k \in DOMAIN by_type |->
           [opType |-> by_type[k].op_type,
            opId |-> [j \in DOMAIN by_type[k].ops |-> by_type[k].ops[j].uid]]]

\* _get_ops(av, raw)
get_ops(av, raw) ==
    LET matched == SelectSeq(av, LAMBDA op :
                       \E x \in DOMAIN raw : raw[x].core_id = op.core_id)
        by_type == ByType(matched, 1)
    IN [k \in DOMAIN by_type |->
           [opType |-> by_type[k].op_type,
            opId |-> [j \in DOMAIN by_type[k].ops |-> by_type[k].ops[j].uid]]]

\* comp.app of a member that declares no app part.
NoApp == [declared |-> FALSE, active_op |-> <<>>]
InFlowApp(active_op) == [declared |-> TRUE, active_op |-> active_op]

\* ops = None, and ops a list.
NoOps == [given |-> FALSE, list |-> <<>>]
Ops(list) == [given |-> TRUE, list |-> list]

\* Lines 137-142: the selected_op handed to add_comp_in_flow for a member
\* whose reconciled component has the type and the available ops.
SelectedOp(loaded_comp_type, app, av) ==
    IF loaded_comp_type = "app" /\ app.declared /\ app.active_op # <<>>
    THEN Ops(get_ops(av, app.active_op))
    ELSE NoOps

\* How many ops an app has available, and how many a member declares.
MaxAvailable == 3
MaxSelected == 2

CoreIds == {<<"k", "1">>, <<"k", "2">>, <<"k", "3">>}
OpTypes == {"input", "processor"}

\* The available ops of an app as the service lists them: each op has a uid
\* of its own.
AvailableOps ==
    UNION {[1..n -> [core_id : CoreIds \ {<<"k", "3">>}, type : OpTypes]]
              : n \in 0..MaxAvailable}
Available(ops) ==
    [i \in DOMAIN ops |->
        [uid |-> Uid(i), core_id |-> ops[i].core_id, type |-> ops[i].type]]

\* What a member can declare.
InFlowApps ==
    {NoApp} \cup {InFlowApp(active_op) :
                    active_op \in UNION {[1..n -> [core_id : CoreIds]]
                                            : n \in 0..MaxSelected}}

InitOps ==
    /\ MgrIdle
    /\ ParseIdle
    /\ fin \in [type : {"app", "asset"}, app : InFlowApps,
                 av : {Available(ops) : ops \in AvailableOps}]
    /\ fout = NotCalled

SelectOp ==
    /\ fout = NotCalled
    /\ fout' = Ok(SelectedOp(fin.type, fin.app, fin.av))
    /\ UNCHANGED <<mgr, fin, pin, pout>>

NextOps == SelectOp

SpecOps == InitOps /\ [][NextOps]_vars

(***************************************************************************)
(* The raw in-flow member responses the parser is applied to               *)
(***************************************************************************)
\* How deep the prev edges of a drawn response nest.
MaxDepth == 1

\* The ways a key of an object may come: missing, or present with a value.
Opt(k, values) == {JObj(NoFields)} \cup {Field(k, v) : v \in values}

DetailsValues ==
    {JNull,
     JObj([uid |-> JStr(<<"m1">>), alias |-> JStr(<<"a">>)]),
     JObj([uid |-> JNull, alias |-> JStr(<<"a">>)]),
     JObj([alias |-> JStr(<<"a">>)])}

AppValues ==
    {JNull,
     JObj([details |-> JObj([uid |-> JStr(<<"app1">>)]),
           op |-> JObj([edges |-> JList(<<>>)])]),
     JObj([details |-> JObj([uid |-> JStr(<<"app1">>)]),
           op |-> JObj([edges |-> JList(<<JObj([node |->
                    JObj([details |-> JObj([uid |-> JStr(<<"op1">>),
                                            name |-> JStr(<<"f">>)])])])>>)])])}

PromptValues == {JNull}

ComponentValues ==
    {JNull, JObj([details |-> JObj([uid |-> JStr(<<"c1">>), reverseId |-> JStr(<<"r1">>)])])}

CollectionAliasValues ==
    {JNull, JObj([details |-> JObj([uid |-> JStr(<<"ca1">>)])]), JObj([details |-> JNull])}

CfgValues ==
    {JNull,
     JObj([details |-> JObj([uid |-> JStr(<<"cfg1">>), readableName |-> JStr(<<"n">>),
                             coreName |-> JStr(<<"cn">>), coreId |-> JStr(<<"ci">>),
                             cfgJson |-> JNull])])}

RECURSIVE PrevValues(_)
\* The members a prev edge list may hold: the query asks only for their
\* details.uid; deeper responses nest prev again.
PrevChildren(depth) ==
    IF depth = 0 THEN {}
    ELSE {JObj([node |-> Merge(Field("details", JObj([uid |-> JStr(<<"p1">>)])), pv)]) :
              pv \in Opt("prev", PrevValues(depth - 1))}

PrevValues(depth) ==
    {JNull, JObj([edges |-> JList(<<>>)])}
        \cup {JObj([edges |-> JList(<<c>>)]) : c \in PrevChildren(depth)}

InFlowResponses ==
    {JObj([node |-> Merge(d, Merge(a, Merge(pr, Merge(c, Merge(pv, Merge(ca, cf))))))]) :
         d \in Opt("details", DetailsValues), a \in Opt("app", AppValues),
         pr \in Opt("prompt", PromptValues), c \in Opt("component", ComponentValues),
         pv \in Opt("prev", PrevValues(MaxDepth)),
         ca \in Opt("collectionAlias", CollectionAliasValues),
         cf \in Opt("cfg", CfgValues)}

\* The raw component responses _parse_comp is applied to: the component's
\* details with its uid, with a null uid and without one; no active version,
\* a version with an asset, and a version with a flow of one member whose
\* details come as above.
CompDetailsValues ==
    {Merge(u, JObj([name |-> JStr(<<"n">>), reverseId |-> JStr(<<"r", "1">>),
                    descriptionMarkdown |-> JNull])) :
         u \in Opt("uid", {JNull, JStr(<<"c", "1">>)})}

CompVersionDetails ==
    JObj([uid |-> JStr(<<"v", "1">>), readableName |-> JStr(<<"0", ".", "1">>),
          updatesMarkdown |-> JNull])

CompVersionValues ==
    {JNull,
     JObj([details |-> CompVersionDetails,
           asset |-> JObj([details |-> JObj([uid |-> JStr(<<"a", "1">>),
                                             corePath |-> JNull]),
                           downloadUrl |-> JNull, uploadUrl |-> JNull])])}
    \cup {JObj([details |-> CompVersionDetails,
                flow |-> JObj([details |-> JObj([uid |-> JStr(<<"f", "1">>)]),
                               inFlowComponents |-> JObj([edges |->
                                   JList(<<JObj([node |-> JObj([details |-> d])])>>)])])]) :
              d \in DetailsValues}

CompResponses ==
    {JObj([details |-> d,
           activeBranch |-> JObj([details |-> JObj([uid |-> JStr(<<"b", "1">>),
                                                    name |-> JStr(<<"m">>),
                                                    status |-> JNull])]),
           activeBranchVersion |-> v]) :
         d \in CompDetailsValues, v \in CompVersionValues}

IncrIdle ==
    /\ fin = [previous |-> NoneStr, mode |-> "major"]
    /\ fout = NotCalled

InitParse ==
    /\ MgrIdle
    /\ IncrIdle
    /\ pin \in InFlowResponses \cup CompResponses
    /\ pout = NotCalled

ParseInFlowComponent ==
    /\ pout = NotCalled
    /\ pin \in InFlowResponses
    /\ pout' = parse_in_flow_component(pin)
    /\ UNCHANGED <<mgr, fin, fout, pin>>

ParseComp ==
    /\ pout = NotCalled
    /\ pin \in CompResponses
    /\ pout' = parse_comp(pin)
    /\ UNCHANGED <<mgr, fin, fout, pin>>

NextParse == ParseInFlowComponent \/ ParseComp

SpecParse == InitParse /\ [][NextParse]_vars

(***************************************************************************)
(* The caller: descriptions reconciled one call after the other            *)
(***************************************************************************)
MaxCalls == 3

AssetRid == <<"a", "s", "t">>
AppRid == <<"a", "p", "p">>
CollectionRid == <<"c", "o", "l">>
FlowRid == <<"f", "l", "w">>

\* Descriptions with one payload and no members: the asset with and without
\* a version name and a branch name of its own, the asset with a required
\* schema, an app with tags, a collection with a numeric version name.
Descriptions ==
    {Description(AssetRid, "asset", version_name, branch_name, <<>>, <<>>, <<>>) :
        version_name \in {NoneStr, <<"r", "c">>},
        branch_name \in {NoneStr, <<"d", "e", "v">>}}
    \cup {Description(AssetRid, "asset", NoneStr, NoneStr,
                      << <<"s", "1">>, <<"s", "2">>, <<"s", "1">> >>, <<>>, <<>>),
          Description(AppRid, "app", NoneStr, NoneStr, <<>>, << <<"t">> >>, <<>>),
          Description(CollectionRid, "collection", <<"1", ".", "9", ".", "9">>,
                      NoneStr, <<>>, <<>>, <<>>)}

\* What the service may answer (see the machine above); the answers a
\* reconciliation of comp never asks for are held fixed.
Oracles(comp) ==
    [activate : IF HasText(comp.branch_name) THEN BOOLEAN ELSE {TRUE},
     noFlow : IF comp.payload = "flow" THEN {"null", "none"} ELSE {"none"}]

Init ==
    /\ IncrIdle
    /\ ParseIdle
    /\ remote = EmptyRemote
    /\ log = <<>>
    /\ calls = <<>>
    /\ provider = <<>>
    /\ menu = [comp : Descriptions, mode : VersionModes]
    /\ left = MaxCalls
    /\ procs = <<>>

\* What a finished component() leaves: the remote state, the calls it
\* issued, its outcome.
Finished(req, m) ==
    /\ remote' = m.remote
    /\ log' = m.log
    /\ calls' = Append(calls, [comp |-> req.comp, mode |-> req.mode,
                               result |-> m.out])

\* component(comp, version_mode), called by the user of the manager.
Component ==
    /\ left > 0
    /\ \E req \in menu :
       \E o \in Oracles(req.comp) :
          Finished(req, Reconcile(remote, provider, req.comp, req.mode, o))
    /\ left' = left - 1
    /\ UNCHANGED <<provider, menu, procs, fns>>

Next == Component

Spec == Init /\ [][Next]_vars

(***************************************************************************)
(* The caller reconciling flows                                            *)
(***************************************************************************)
MaxFlowCalls == 2

AliasA == <<"a">>
AliasB == <<"b">>
AliasC == <<"c">>
AliasZ == <<"z", "z">>

\* A dependency on an alias with a single edge, and one with three terminals
\* (the second without an order of its own, the third with order 0) and a
\* schema alias.
DependsOn(alias) == Dependency(alias, <<>>, NoneInt, <<>>)
DependsOnByTerminals(alias) ==
    Dependency(alias,
               <<Terminal(<<"o", "1">>, <<"i", "1">>, 2),
                 Terminal(<<"o", "2">>, <<"i", "2">>, NoneInt),
                 Terminal(<<"o", "3">>, <<"i", "3">>, 0)>>,
               1,
               <<[src |-> <<"x">>, target |-> <<"y">>]>>)

\* Dependencies that give no alias: one stored under the key a (the alias
\* of a member) with alias None, one under the key zz with an empty alias.
DependsOnNothing(key, alias) ==
    DependencyUnder(key,
        Dependency(alias, <<Terminal(<<"o", "9">>, <<"i", "9">>, 3)>>, 1,
                   <<[src |-> <<"x">>, target |-> <<"y">>]>>))

MemberA == InFlowComponent(AssetRid, AliasA, <<>>, NoCfg)
MemberB(depends) == InFlowComponent(AppRid, AliasB, depends, NoCfg)
MemberC(depends) == InFlowComponent(AssetRid, AliasC, depends, NoCfg)

\* The member sets flows are declared from: a lone member, B depending on A,
\* dependencies on an alias zz no member has (alone, after a good one, on a
\* third member), a chain with terminals, members with configurations (an
\* inline one, a named one, an inline one that gives no core_name),
\* dependencies without an alias around one with an alias.
MemberSets ==
    {{MemberA},
     {MemberA, MemberB(<<DependsOn(AliasA)>>)},
     {MemberA, MemberB(<<DependsOn(AliasZ)>>)},
     {MemberA, MemberB(<<DependsOn(AliasA), DependsOn(AliasZ)>>)},
     {MemberA, MemberB(<<DependsOnByTerminals(AliasA)>>),
      MemberC(<<DependsOn(AliasB)>>)},
     {MemberA, MemberB(<<DependsOn(AliasA)>>), MemberC(<<DependsOn(AliasZ)>>)},
     {InFlowComponent(AssetRid, AliasA, <<>>, CfgSchema(<<"c", "1">>)),
      InFlowComponent(AppRid, AliasB, <<DependsOn(AliasA)>>, CfgRef(<<"c", "2">>))},
     {InFlowComponent(AssetRid, AliasA, <<>>, CfgSchema(NoneStr))},
     {MemberA, MemberB(<<DependsOnNothing(AliasA, NoneStr), DependsOn(AliasA),
                         DependsOnNothing(AliasZ, <<>>)>>)}}

\* The orders a set of members can be declared in.
Declarations(S) ==
    {d \in [1..Cardinality(S) -> S] :
        \A i, j \in DOMAIN d : i # j => d[i] # d[j]}

Flows == UNION {Declarations(S) : S \in MemberSets}

FlowDescriptions ==
    {Description(FlowRid, "flow", NoneStr, NoneStr, <<>>, <<>>, flow) :
        flow \in Flows}

AssetDescription == Description(AssetRid, "asset", NoneStr, NoneStr, <<>>, <<>>, <<>>)

\* The component provider knows the app locally, or the app and the asset,
\* or there is no provider.
AppLocal ==
    AppRid :> Description(AppRid, "app", NoneStr, NoneStr, <<>>, <<>>, <<>>)
BothLocal == (AssetRid :> AssetDescription) @@ AppLocal

InitFlow ==
    /\ IncrIdle
    /\ ParseIdle
    /\ remote = EmptyRemote
    /\ log = <<>>
    /\ calls = <<>>
    /\ provider \in {<<>>, AppLocal, BothLocal}
    /\ menu = {[comp |-> AssetDescription, mode |-> "default"]}
              \cup [comp : FlowDescriptions, mode : {"default", "override"}]
    /\ left = MaxFlowCalls
    /\ procs = <<>>

SpecFlow == InitFlow /\ [][Next]_vars

(***************************************************************************)
(* The caller against a gateway whose calls may fail                       *)
(***************************************************************************)
MaxFaultyCalls == 2
\* The positions, among the gateway calls of one component(), a failure is
\* injected at, and how many calls of a run fail.
MaxFailAt == 27
MaxFaults == 1

\* A flow of an asset with a configuration and an app that depends on it by
\* two terminals and a schema alias.
FaultyFlow ==
    <<InFlowComponent(AssetRid, AliasA, <<>>, CfgSchema(<<"c", "1">>)),
      MemberB(<<DependsOnByTerminals(AliasA)>>)>>

FaultyDescriptions ==
    {Description(AssetRid, "asset", NoneStr, branch_name, <<>>, <<>>, <<>>) :
        branch_name \in {NoneStr, <<"d", "e", "v">>}}
    \cup {Description(AppRid, "app", NoneStr, NoneStr, << <<"s", "1">> >>,
                      << <<"t">> >>, <<>>),
          Description(CollectionRid, "collection", NoneStr, NoneStr, <<>>, <<>>, <<>>),
          Description(FlowRid, "flow", NoneStr, NoneStr, <<>>, <<>>, FaultyFlow)}

InitFaulty ==
    /\ IncrIdle
    /\ ParseIdle
    /\ remote = EmptyRemote
    /\ log = <<>>
    /\ calls = <<>>
    /\ provider = BothLocal
    /\ menu = [comp : FaultyDescriptions, mode : VersionModes]
    /\ left = MaxFaultyCalls
    /\ procs = <<>>

\* The calls that failed so far.
Faults == Cardinality({k \in DOMAIN calls : calls[k].result = Raised("TransportError")})

\* What a component() leaves whose call number failAt was to fail: nothing
\* when it issued fewer calls than that.
FinishedFaulty(req, o, failAt, m) ==
    /\ failAt = 0 \/ m.failed
    /\ remote' = m.remote
    /\ log' = m.log
    /\ calls' = Append(calls, [comp |-> req.comp, mode |-> req.mode,
                               result |-> m.out, oracle |-> o, fault |-> failAt])

\* component(comp, version_mode) with at most one gateway call failing.
ComponentFaulty ==
    /\ left > 0
    /\ \E req \in menu :
       \E o \in Oracles(req.comp) :
       \E failAt \in 0..(IF Faults < MaxFaults THEN MaxFailAt ELSE 0) :
          FinishedFaulty(req, o, failAt,
                         Faulty(remote, provider, req.comp, req.mode, o, failAt))
    /\ left' = left - 1
    /\ UNCHANGED <<provider, menu, procs, fns>>

NextFaulty == ComponentFaulty

SpecFaulty == InitFaulty /\ [][NextFaulty]_vars

(***************************************************************************)
(* component() calls whose gateway calls interleave                        *)
(***************************************************************************)
\* How many callers reconcile side by side, one component() each.
MaxProcs == 2

\* What the callers reconcile: the asset and the app, in every mode.
SharedDescriptions ==
    {AssetDescription,
     Description(AppRid, "app", NoneStr, NoneStr, <<>>, <<>>, <<>>)}

Entered(req) ==
    [req |-> req, stack |-> <<NewFrame(req.comp, req.mode)>>, log |-> <<>>,
     out |-> NotCalled]

InitShared ==
    /\ IncrIdle
    /\ ParseIdle
    /\ remote = EmptyRemote
    /\ log = <<>>
    /\ calls = <<>>
    /\ provider = <<>>
    /\ menu = [comp : SharedDescriptions, mode : VersionModes]
    /\ left = 0
    /\ procs \in [1..MaxProcs -> {Entered(req) : req \in menu}]

\* What a step of caller p leaves: the remote state for all, the rest its own.
Stepped(p, m) ==
    /\ remote' = m.remote
    /\ procs' = [procs EXCEPT ![p].stack = m.stack, ![p].log = m.log,
                              ![p].out = m.out]

\* Caller p goes on to its next gateway calls against the remote state as
\* the other callers have left it.
Proceed ==
    /\ \E p \in DOMAIN procs :
          /\ procs[p].stack # <<>>
          /\ \E o \in Oracles(procs[p].req.comp) :
                Stepped(p, Settle(Step([remote |-> remote, provider |-> provider,
                                       stack |-> procs[p].stack,
                                       log |-> procs[p].log, out |-> procs[p].out,
                                       failAt |-> 0, failed |-> FALSE], o)))
    /\ UNCHANGED <<log, calls, provider, menu, left, fns>>

NextShared == Proceed

SpecShared == InitShared /\ [][NextShared]_vars

(***************************************************************************)
(* Claims about component() (checked under Spec)                           *)
(***************************************************************************)
\* A step of the caller, and the call it made.
Called == Len(calls') = Len(calls) + 1
ThisCall == calls'[Len(calls')]
LastCall == calls[Len(calls)]

\* The reverse id resolves to a remote component.
Existing(r, reverse_id) == Truthy(SrvGetComponentByReverseId(r, reverse_id))

\* The calls of a log made by the outermost component() with one of the ops.
CallsOf(l, ops) == {k \in DOMAIN l : l[k].depth = 1 /\ l[k].op \in ops}

ContentOps ==
    {"create_app_in_version", "create_flow_in_version",
     "create_collection_in_version", "create_asset_in_version"}

BumpModes == {"major", "minor", "patch"}

\* version.uid of a LoadedComponentSchema (None without a version).
VersionUidOf(loaded) ==
    IF loaded.f.version.t = "null" THEN NoneStr ELSE loaded.f.version.f.uid.s

\* C1: component(comp, DEFAULT) for a reverse_id that resolves to a remote
\* component issues no write to the gateway and returns the component the
\* lookup found, whatever optional fields the description carries.
C1_DefaultOnExistingIssuesNoWrite ==
    [][(/\ Called
        /\ ThisCall.mode = "default"
        /\ Existing(remote, ThisCall.comp.reverse_id))
       => /\ \A k \in DOMAIN log' : log'[k].op \notin WriteOps
          /\ ThisCall.result =
                get_parsed_component_by_reverse_id(remote, ThisCall.comp.reverse_id)
      ]_vars

\* C2: component(comp, DEFAULT) twice in a row with the same description and
\* nothing in between returns two components with the same uid and the same
\* version.uid.
C2_DefaultTwiceSameIdentity ==
    \A k \in 1..(Len(calls) - 1) :
        (/\ calls[k].mode = "default"
         /\ calls[k + 1].mode = "default"
         /\ calls[k].comp = calls[k + 1].comp
         /\ IsOk(calls[k].result))
        => /\ IsOk(calls[k + 1].result)
           /\ calls[k + 1].result.value.f.uid = calls[k].result.value.f.uid
           /\ VersionUidOf(calls[k + 1].result.value)
                = VersionUidOf(calls[k].result.value)

\* The pair happens on a component an earlier MINOR call created, and the
\* two calls return it.
C2_Witness ==
    /\ Len(calls) = 3
    /\ calls[1].mode = "minor"
    /\ calls[2].mode = "default"
    /\ calls[3].mode = "default"
    /\ calls[2].comp = calls[3].comp
    /\ calls[2].comp.reverse_id = calls[1].comp.reverse_id
    /\ IsOk(calls[2].result)
    /\ IsOk(calls[3].result)
    /\ VersionUidOf(calls[3].result.value) # NoneStr

\* C5: component(comp, OVERRIDE) on an existing component issues no
\* create_version; every content call it makes goes to the uid of the active
\* version the lookup found, and when the lookup found one the call returns
\* with a content call made and no version added to the remote state (with
\* no branch name the returned component still carries that version uid).
C5_OverrideReusesActiveVersion ==
    [][(/\ Called
        /\ ThisCall.mode = "override"
        /\ Existing(remote, ThisCall.comp.reverse_id))
       => LET looked == get_parsed_component_by_reverse_id(
                            remote, ThisCall.comp.reverse_id).value
              content == CallsOf(log', ContentOps)
          IN /\ CallsOf(log', {"create_version"}) = {}
             /\ DOMAIN remote'.versions = DOMAIN remote.versions
             /\ \A k \in content : log'[k].args.version_id = VersionUidOf(looked)
             /\ VersionUidOf(looked) # NoneStr
                => /\ IsOk(ThisCall.result)
                   /\ content # {}
                   /\ ~HasText(ThisCall.comp.branch_name)
                      => VersionUidOf(ThisCall.result.value) = VersionUidOf(looked)
      ]_vars

\* An OVERRIDE call on a component two earlier calls created and bumped put
\* its asset under the version the bump had made active.
C5_Witness ==
    /\ Len(calls) = 3
    /\ calls[1].comp.reverse_id = AssetRid
    /\ calls[2].comp.reverse_id = AssetRid
    /\ calls[2].mode = "minor"
    /\ IsOk(calls[2].result)
    /\ calls[3].comp.reverse_id = AssetRid
    /\ calls[3].mode = "override"
    /\ IsOk(calls[3].result)
    /\ CallsOf(log, {"create_version"}) = {}
    /\ \E k \in CallsOf(log, {"create_asset_in_version"}) :
          log[k].args.version_id = VersionUidOf(calls[2].result.value)

\* The last call created its component.
Created == calls # <<>> /\ CallsOf(log, {"create_component"}) # {}

\* The names a creation uses: the caller's, or the defaults.
BranchNameUsed(comp) ==
    IF HasText(comp.branch_name) THEN comp.branch_name ELSE DefaultBranchName
VersionNameUsed(comp) ==
    IF HasText(comp.version_name) THEN comp.version_name ELSE DefaultVersionName

\* C8: a component component() created, fetched by
\* get_parsed_component_by_reverse_id, has the reverse_id, the branch name
\* and the version name used at creation.
C8_CreatedRoundTrip ==
    Created
    => LET fetched == get_parsed_component_by_reverse_id(
                          remote, LastCall.comp.reverse_id)
       IN /\ IsOk(fetched)
          /\ Truthy(fetched.value)
          /\ fetched.value.f.reverse_id = JStr(LastCall.comp.reverse_id)
          /\ fetched.value.f.branch.f.name = JStr(BranchNameUsed(LastCall.comp))
          /\ fetched.value.f.version.t = "obj"
          /\ fetched.value.f.version.f.readable_name
                = JStr(VersionNameUsed(LastCall.comp))

\* A creation with a branch name and a version name of the caller's.
C8_Witness ==
    /\ Created
    /\ LastCall.comp.branch_name = <<"d", "e", "v">>
    /\ LastCall.comp.version_name = <<"r", "c">>
    /\ IsOk(LastCall.result)
    /\ LastCall.result.value.f.version.f.readable_name = JStr(<<"r", "c">>)

\* C9: after component() of an asset description in a bump mode, whether the
\* component existed before or not, the lookup of its reverse_id returns a
\* component whose asset is set.
C9_AssetSetAfterBump ==
    (/\ calls # <<>>
     /\ LastCall.comp.payload = "asset"
     /\ LastCall.mode \in BumpModes)
    => LET fetched == get_parsed_component_by_reverse_id(
                          remote, LastCall.comp.reverse_id)
       IN /\ IsOk(fetched)
          /\ Truthy(fetched.value)
          /\ Truthy(fetched.value.f.asset)

\* The uid of the remote component a reverse id resolves to.
UidOf(r, reverse_id) == SrvGetComponentByReverseId(r, reverse_id).f.details.f.uid.s

\* The names of the branches of a component, in the order of creation.
BranchNames(r, c) ==
    [i \in DOMAIN r.comps[c].branches |-> r.branches[r.comps[c].branches[i]].name]

BranchNamesUnique(r) ==
    \A c \in DOMAIN r.comps :
        \A i, j \in DOMAIN BranchNames(r, c) :
            i # j => BranchNames(r, c)[i] # BranchNames(r, c)[j]

\* The branch ids the create_version calls of a log went under.
VersionBranches(l) == {l[k].args.branch_id : k \in CallsOf(l, {"create_version"})}

\* C12: after every component() call of a sequence no component has two
\* branches of one name; a call on an existing component issues create_branch
\* only with a branch name no branch of the component has (then once), puts a
\* new version under the branch of that name when there is one, and with no
\* branch name puts it under the component's active branch.
C12_BranchNamesUnique ==
    [][Called =>
        /\ BranchNamesUnique(remote')
        /\ Existing(remote, ThisCall.comp.reverse_id) =>
              LET c == UidOf(remote, ThisCall.comp.reverse_id)
                  named == SrvBranchesByName(remote, c, ThisCall.comp.branch_name)
                  created == CallsOf(log', {"create_branch"})
              IN IF ThisCall.mode = "default" THEN created = {}
                 ELSE IF ~HasText(ThisCall.comp.branch_name)
                 THEN /\ created = {}
                      /\ VersionBranches(log') \subseteq {remote.comps[c].activeBranch}
                 ELSE IF named # <<>>
                 THEN /\ created = {}
                      /\ VersionBranches(log') \subseteq {named[1]}
                 ELSE /\ Cardinality(created) = 1
                      /\ \A k \in created :
                            /\ log'[k].args.name = ThisCall.comp.branch_name
                            /\ VersionBranches(log') \subseteq {log'[k].args.uid}
       ]_vars

\* The second call made branch dev on an existing component, the third
\* named dev again: it issued no create_branch and put its version under
\* the one branch of that name.
C12_Witness ==
    /\ Len(calls) = 3
    /\ calls[1].comp.branch_name = NoneStr
    /\ calls[2].comp.branch_name = <<"d", "e", "v">>
    /\ calls[2].mode = "minor"
    /\ calls[3].comp.branch_name = <<"d", "e", "v">>
    /\ calls[3].mode = "patch"
    /\ \A k \in 1..3 : calls[k].comp.reverse_id = AssetRid /\ IsOk(calls[k].result)
    /\ CallsOf(log, {"create_branch"}) = {}
    /\ VersionBranches(log)
          = {b \in DOMAIN remote.branches : remote.branches[b].name = <<"d", "e", "v">>}
    /\ Cardinality(VersionBranches(log)) = 1

\* The core ids the create_scheme calls of a log before position p made.
SchemesBefore(l, p) ==
    {l[k].args.core_id : k \in {j \in CallsOf(l, {"create_scheme"}) : j < p}}

\* C21: component() asks get_schema once for each schema of required_schema,
\* in order, and issues create_scheme for a core id exactly when the schema
\* was not there at that moment (not in the remote state before the call,
\* not created earlier in the call), right after that get_schema; a core id
\* is created at most once, nothing already there is written again, and all
\* of it comes before create_component.
C21_SchemasCreatedIfAbsent ==
    [][Called =>
        LET asked == CallsOf(log', {"get_schema"})
            made == CallsOf(log', {"create_scheme"})
            wanted == ThisCall.comp.required_schema
        IN /\ Cardinality(asked) = Len(wanted)
           /\ \A p \in asked :
                 /\ log'[p].args.core_id
                       = wanted[Cardinality({q \in asked : q <= p})]
                 /\ (p + 1 \in made /\ log'[p + 1].args.core_id = log'[p].args.core_id)
                       <=> log'[p].args.core_id
                              \notin remote.schemas \cup SchemesBefore(log', p)
           /\ \A c \in made :
                 /\ c - 1 \in asked
                 /\ log'[c - 1].args.core_id = log'[c].args.core_id
                 /\ log'[c].args.core_id \notin remote.schemas
                 /\ \A d \in made : d # c => log'[d].args.core_id # log'[c].args.core_id
           /\ remote'.schemas = remote.schemas \cup SchemesBefore(log', Len(log') + 1)
           /\ \A p \in asked \cup made, c \in CallsOf(log', {"create_component"}) : p < c
       ]_vars

\* The asset whose required schemas are s1, s2 and s1 again was created on
\* an empty remote state: s1 and s2 were created once each, the second s1
\* was found, and create_component came after.
C21_Witness ==
    /\ Len(calls) = 1
    /\ Len(LastCall.comp.required_schema) = 3
    /\ IsOk(LastCall.result)
    /\ Len(log) >= 7
    /\ log[2].op = "get_schema"
    /\ log[3].op = "create_scheme"
    /\ log[4].op = "get_schema"
    /\ log[5].op = "create_scheme"
    /\ log[6].op = "get_schema"
    /\ log[6].args.core_id = log[3].args.core_id
    /\ log[7].op = "create_component"
    /\ remote.schemas = {log[3].args.core_id, log[5].args.core_id}

\* The metadata calls attach_metadata issues for a description.
MetadataOps == {"create_use_case", "attach_use_case", "create_tag", "attach_tag_to_comp"}
MetadataExpected(comp) == IF comp.tags = <<>> THEN 0 ELSE Len(comp.tags) + 1

\* C20: component() for a reverse_id that resolves to no remote component
\* issues, in every mode and in this order, create_component, the metadata
\* calls, create_branch and create_version, one of each; the branch gets the
\* caller's branch name or the default one, the version the caller's version
\* name or the default one, whatever the mode.
C20_CreationOrder ==
    [][(Called /\ ~Existing(remote, ThisCall.comp.reverse_id))
       => LET comps == CallsOf(log', {"create_component"})
              metas == CallsOf(log', MetadataOps)
              branches == CallsOf(log', {"create_branch"})
              versions == CallsOf(log', {"create_version"})
          IN /\ Cardinality(comps) = 1
             /\ Cardinality(metas) = MetadataExpected(ThisCall.comp)
             /\ Cardinality(branches) = 1
             /\ Cardinality(versions) = 1
             /\ \A c \in comps, b \in branches, v \in versions :
                   /\ c < b
                   /\ b < v
                   /\ \A a \in metas : c < a /\ a < b
                   /\ log'[c].args.reverse_id = ThisCall.comp.reverse_id
                   /\ log'[b].args.component_id = log'[c].args.uid
                   /\ log'[b].args.name = BranchNameUsed(ThisCall.comp)
                   /\ log'[v].args.branch_id = log'[b].args.uid
                   /\ log'[v].args.readable_name = VersionNameUsed(ThisCall.comp)
      ]_vars

\* The app with a tag and no names of its own was created in mode MAJOR:
\* its tag was attached between create_component and create_branch, and the
\* version got the default version name.
C20_Witness ==
    /\ Len(calls) = 1
    /\ LastCall.mode = "major"
    /\ LastCall.comp.reverse_id = AppRid
    /\ LastCall.comp.tags # <<>>
    /\ IsOk(LastCall.result)
    /\ Len(log) >= 6
    /\ log[2].op = "create_component"
    /\ log[3].op = "create_tag"
    /\ log[4].op = "attach_tag_to_comp"
    /\ log[5].op = "create_branch"
    /\ log[5].args.name = DefaultBranchName
    /\ log[6].op = "create_version"
    /\ log[6].args.readable_name = DefaultVersionName

\* The branch a call on the remote state r resolves for a description: the
\* branch its create_branch call (in the log l) made, else the branch of the
\* description's branch name, else the component's active branch.
ResolvedBranch(r, l, comp) ==
    IF CallsOf(l, {"create_branch"}) # {}
    THEN {l[k].args.uid : k \in CallsOf(l, {"create_branch"})}
    ELSE IF HasText(comp.branch_name)
    THEN {b \in DOMAIN r.branches :
             /\ r.branches[b].comp = UidOf(r, comp.reverse_id)
             /\ r.branches[b].name = comp.branch_name}
    ELSE {r.comps[UidOf(r, comp.reverse_id)].activeBranch}

\* The calls that realize the content under a version.
RealizationOps == ContentOps \cup {"get_flow_by_version_id"}

\* C19 (as claimed): every component() call that neither returns on the
\* DEFAULT path nor is OVERRIDE on an existing component issues exactly one
\* create_version, under the branch it resolved, before every call that
\* realizes content, and each of those calls gets the uid that
\* create_version returned.
C19_OneVersionBeforeContent ==
    [][(/\ Called
        /\ ~(/\ ThisCall.mode \in {"default", "override"}
              /\ Existing(remote, ThisCall.comp.reverse_id)))
       => LET made == CallsOf(log', {"create_version"})
          IN /\ Cardinality(made) = 1
             /\ \A k \in made :
                   /\ {log'[k].args.branch_id}
                         = ResolvedBranch(remote, log', ThisCall.comp)
                   /\ \A c \in CallsOf(log', RealizationOps) :
                         /\ k < c
                         /\ log'[c].args.version_id = log'[k].args.uid
      ]_vars

\* The readable name of the active version of a branch in the remote state
\* r (None for a branch without one, or one r does not hold).
OldVersionName(r, b) ==
    IF b \in DOMAIN r.branches /\ r.branches[b].activeVersion # NoneStr
    THEN r.versions[r.branches[b].activeVersion].readableName
    ELSE NoneStr

\* C28: a MAJOR, MINOR or PATCH call on an existing component with a
\* description that carries a version name creates the new version under
\* that name as given, whatever the previous name is, and no increment of
\* the previous name is computed (nor can fail); the create_version of a
\* description without a version name carries the increment of the previous
\* name.
C28_CallerVersionNameWins ==
    [][(/\ Called
        /\ ThisCall.mode \in BumpModes
        /\ Existing(remote, ThisCall.comp.reverse_id))
       => LET made == CallsOf(log', {"create_version"})
              given == ThisCall.comp.version_name
          IN /\ Cardinality(made) <= 1
             /\ \A k \in made :
                   LET name == log'[k].args.readable_name
                       old == OldVersionName(remote, log'[k].args.branch_id)
                   IN IF HasText(given) THEN name = given
                      ELSE /\ name = increment_version(old, ThisCall.mode, name).value
                           /\ name # old
             /\ HasText(given)
                   => /\ ThisCall.result \notin {Raised("IndexError"), Raised("ValueError")}
                      /\ IsOk(ThisCall.result) => made # {}
      ]_vars

\* The collection exists with version 1.9.9; a bump with the description
\* that names version 1.9.9 created a second version under that very name.
C28_Witness ==
    /\ Len(calls) >= 2
    /\ LastCall.mode \in BumpModes
    /\ LastCall.comp.reverse_id = CollectionRid
    /\ IsOk(LastCall.result)
    /\ \E k \in CallsOf(log, {"create_version"}) :
          /\ log[k].args.readable_name = LastCall.comp.version_name
          /\ OldVersionName(remote, log[k].args.branch_id) = LastCall.comp.version_name
    /\ CallsOf(log, {"create_component"}) = {}

\* C30: after any sequence of calls in modes MAJOR, MINOR, PATCH and
\* OVERRIDE, no two versions under the same branch have the same readable
\* name.
C30_VersionNamesUniquePerBranch ==
    (\A k \in DOMAIN calls : calls[k].mode # "default")
    => \A b \in DOMAIN remote.branches :
          \A i, j \in DOMAIN remote.branches[b].versions :
             i # j => remote.versions[remote.branches[b].versions[i]].readableName
                         # remote.versions[remote.branches[b].versions[j]].readableName

\* The versions the content calls of the last call went to.
VersionsRealized == {log[k].args.version_id : k \in CallsOf(log, ContentOps)}

\* C14 (as claimed): after every component() call of a sequence, in whatever
\* modes, every version has at most one content object, and the version a
\* completed call put its content under has exactly one.
C14_OneContentPerVersion ==
    /\ \A v \in DOMAIN remote.versions : Len(remote.versions[v].content) <= 1
    /\ (calls # <<>> /\ IsOk(LastCall.result))
          => \A v \in VersionsRealized : Len(remote.versions[v].content) = 1

(***************************************************************************)
(* Claims about failing gateway calls (checked under SpecFaulty)           *)
(***************************************************************************)
\* Everything the remote state r held is in the remote state q.
Kept(r, q) ==
    /\ DOMAIN r.comps \subseteq DOMAIN q.comps
    /\ DOMAIN r.branches \subseteq DOMAIN q.branches
    /\ DOMAIN r.versions \subseteq DOMAIN q.versions
    /\ DOMAIN r.flows \subseteq DOMAIN q.flows
    /\ r.schemas \subseteq q.schemas
    /\ SubSeq(q.cfgs, 1, Len(r.cfgs)) = r.cfgs
    /\ \A v \in DOMAIN r.versions :
          SubSeq(q.versions[v].content, 1, Len(r.versions[v].content))
              = r.versions[v].content
    /\ \A g \in DOMAIN r.flows :
          /\ Len(r.flows[g].members) <= Len(q.flows[g].members)
          /\ SubSeq(q.flows[g].links, 1, Len(r.flows[g].links)) = r.flows[g].links

\* The remote state r holds what the write c made.
Lasting(r, c) ==
    CASE c.op = "create_component" ->
            /\ c.args.uid \in DOMAIN r.comps
            /\ r.comps[c.args.uid].reverse_id = c.args.reverse_id
      [] c.op = "create_branch" ->
            /\ c.args.uid \in DOMAIN r.branches
            /\ r.branches[c.args.uid].name = c.args.name
            /\ r.branches[c.args.uid].comp = c.args.component_id
      [] c.op = "create_version" ->
            /\ c.args.uid \in DOMAIN r.versions
            /\ r.versions[c.args.uid].branch = c.args.branch_id
            /\ r.versions[c.args.uid].readableName = c.args.readable_name
      [] c.op \in ContentOps ->
            \E i \in DOMAIN r.versions[c.args.version_id].content :
                r.versions[c.args.version_id].content[i].uid = c.args.uid
      [] c.op = "add_comp_in_flow" ->
            \E i \in DOMAIN r.flows[c.args.flow_id].members :
                /\ r.flows[c.args.flow_id].members[i].uid = c.args.uid
                /\ r.flows[c.args.flow_id].members[i].alias = c.args.alias
      [] c.op = "set_in_flow_component_cfg" ->
            \E i \in DOMAIN r.flows[c.args.flow_id].members :
                /\ r.flows[c.args.flow_id].members[i].uid = c.args.comp_id
                /\ r.flows[c.args.flow_id].members[i].cfg = c.args.cfg_core_id
      [] c.op = "link" ->
            \E i \in DOMAIN r.flows[c.args.flow_id].links :
                r.flows[c.args.flow_id].links[i] = c.args.edge
      [] c.op = "add_schema_alias" ->
            \E i \in DOMAIN r.flows[c.args.flow_id].schemaAliases :
                r.flows[c.args.flow_id].schemaAliases[i] = c.args.alias
      [] c.op = "create_scheme" -> c.args.core_id \in r.schemas
      [] c.op = "create_cfg_standalone" ->
            \E i \in DOMAIN r.cfgs : /\ r.cfgs[i].uid = c.args.uid
                                     /\ r.cfgs[i].core_name = c.args.core_name
      [] OTHER -> TRUE

\* The calls of a log that make an object with a uid of its own.
Makers(l) ==
    {k \in DOMAIN l : l[k].op \in ContentOps \cup
        {"create_component", "create_branch", "create_version", "add_comp_in_flow",
         "create_cfg_standalone"}}

\* C13: when a gateway call of a component() fails, the call raises that
\* error; the calls it issued are those of the undisturbed reconciliation up
\* to the failed one and no other (nothing after it, not the failed call
\* again, nothing that undoes a write); what the remote state held before
\* and what every write before the failure made is in the remote state, and
\* the failed call made nothing.
C13_FailureAbortsWithoutRollback ==
    [][(Called /\ ThisCall.fault > 0) =>
        LET whole == Faulty(remote, provider, ThisCall.comp, ThisCall.mode,
                            ThisCall.oracle, 0).log
            k == ThisCall.fault
        IN /\ ThisCall.result = Raised("TransportError")
           /\ log' = SubSeq(whole, 1, k)
           /\ Kept(remote, remote')
           /\ \A i \in 1..(k - 1) : Lasting(remote', log'[i])
           /\ remote'.nextUid
                 = remote.nextUid + Cardinality(Makers(SubSeq(log', 1, k - 1)))
       ]_vars

\* create_version of the asset's creation failed: the call raised, the log
\* ends with the create_version, and the component and its branch are in
\* the remote state without a version.
C13_Witness ==
    /\ Len(calls) = 1
    /\ LastCall.comp.reverse_id = AssetRid
    /\ LastCall.result = Raised("TransportError")
    /\ Len(log) = 4
    /\ log[4].op = "create_version"
    /\ Existing(remote, AssetRid)
    /\ DOMAIN remote.branches # {}
    /\ DOMAIN remote.versions = {}

(***************************************************************************)
(* Claims about interleaved calls (checked under SpecShared)               *)
(***************************************************************************)
\* The create_component calls the callers issued for a reverse id.
CreationsOf(reverse_id) ==
    {<<p, k>> \in UNION {{<<q, j>> : j \in DOMAIN procs[q].log} : q \in DOMAIN procs} :
        /\ procs[p].log[k].op = "create_component"
        /\ procs[p].log[k].args.reverse_id = reverse_id}

\* C15 (as claimed): however the gateway calls of component() calls
\* interleave, at most one remote component has a given reverse_id, and at
\* most one create_component is issued for it.
C15_ReverseIdUnique ==
    \A c \in SharedDescriptions :
        /\ Cardinality({u \in DOMAIN remote.comps :
                           remote.comps[u].reverse_id = c.reverse_id}) <= 1
        /\ Cardinality(CreationsOf(c.reverse_id)) <= 1

(***************************************************************************)
(* Claims about _flow2version (checked under SpecFlow)                     *)
(***************************************************************************)
\* The last call went into _flow2version with the members it declares.
FlowCall ==
    /\ calls # <<>>
    /\ LastCall.comp.payload = "flow"
    /\ CallsOf(log, {"get_flow_by_version_id"}) # {}
Declared == LastCall.comp.flow

\* The add_comp_in_flow and the link calls of the assembly, by log position.
Adds == CallsOf(log, {"add_comp_in_flow"})
Links == CallsOf(log, {"link"})

\* The first pass registered every declared member.
AllMembersAdded == Cardinality(Adds) = Len(Declared)

\* The dependencies the second pass handles: <<member, dependency>>.
DeclaredDeps ==
    {p \in UNION {{<<i, j>> : j \in DOMAIN Declared[i].depends} : i \in DOMAIN Declared} :
        HasText(Declared[p[1]].depends[p[2]].alias)}

\* Some dependency names an alias no declared member has.
MissingAlias ==
    \E p \in DeclaredDeps :
        \A i \in DOMAIN Declared :
            Declared[i].alias # Declared[p[1]].depends[p[2]].alias

\* The in-flow id add_comp_in_flow returned for the member of an alias.
InFlowId(alias) ==
    log[CHOOSE k \in Adds : log[k].args.alias = alias].args.uid

\* C6: a dependency on an alias no member of the flow has makes the
\* assembly raise the missing-alias error, and no link call was issued for
\* the flow before it, wherever the bad dependency stands.
C6_MissingAliasBeforeAnyLink ==
    (FlowCall /\ AllMembersAdded /\ MissingAlias)
    => /\ LastCall.result = Raised("KeyError")
       /\ Links = {}

\* The link calls a dependency gets: one per terminal, or one.
LinksAskedFor(dep) == IF dep.terminals # <<>> THEN Len(dep.terminals) ELSE 1

\* C7: every add_comp_in_flow call, one per declared member, comes before
\* the first link call; a completed assembly issued, for every dependency
\* of a member B on an alias A, exactly the link calls from A's in-flow id
\* to B's, wherever A and B stand in the declaration, and no other.
C7_MembersBeforeEdges ==
    FlowCall
    => /\ \A a \in Adds, l \in Links : a < l
       /\ Links # {} => AllMembersAdded
       /\ IsOk(LastCall.result)
          => /\ AllMembersAdded
             /\ \A p \in DeclaredDeps :
                   LET member == Declared[p[1]]
                       dep == member.depends[p[2]]
                   IN Cardinality({l \in Links :
                          /\ log[l].args.edge.start_id = InFlowId(dep.alias)
                          /\ log[l].args.edge.target_id = InFlowId(member.alias)})
                      = LinksAskedFor(dep)
             /\ \A l \in Links :
                   \E p \in DeclaredDeps :
                      /\ log[l].args.edge.start_id
                            = InFlowId(Declared[p[1]].depends[p[2]].alias)
                      /\ log[l].args.edge.target_id
                            = InFlowId(Declared[p[1]].alias)

\* B, which depends on A, is declared before A, and the assembly completed
\* with the one edge from A's in-flow id to B's.
C7_Witness ==
    /\ FlowCall
    /\ IsOk(LastCall.result)
    /\ Len(Declared) = 2
    /\ Declared[1].alias = AliasB
    /\ Declared[2].alias = AliasA
    /\ Declared[1].depends = <<DependsOn(AliasA)>>
    /\ \E l \in Links :
          /\ Links = {l}
          /\ log[l].args.edge.start_id = InFlowId(AliasA)
          /\ log[l].args.edge.target_id = InFlowId(AliasB)
          /\ \A a \in Adds : a < l

\* The positions of a set of log positions, in log order.
InLogOrder(S) ==
    CHOOSE s \in [1..Cardinality(S) -> S] :
        \A i, j \in DOMAIN s : i < j => s[i] < s[j]

\* The link calls of the last call from one in-flow id to another, in order.
LinksBetween(start_id, target_id) ==
    InLogOrder({l \in Links : /\ log[l].args.edge.start_id = start_id
                              /\ log[l].args.edge.target_id = target_id})

\* C22: a completed assembly issued, for each dependency with a resolvable
\* alias, one link call per terminal when the dependency lists terminals and
\* exactly one member-level link call otherwise; the order of a terminal
\* link is the terminal's own order whenever it has one (0 included) and
\* the dependency's order only when the terminal has none.
C22_TerminalOrderWins ==
    (FlowCall /\ IsOk(LastCall.result))
    => \A p \in DeclaredDeps :
          LET member == Declared[p[1]]
              dep == member.depends[p[2]]
              links == LinksBetween(InFlowId(dep.alias), InFlowId(member.alias))
          IN IF dep.terminals # <<>>
             THEN /\ Len(links) = Len(dep.terminals)
                  /\ \A k \in DOMAIN dep.terminals :
                        LET edge == log[links[k]].args.edge
                            terminal == dep.terminals[k]
                        IN /\ edge.start_terminal_id = terminal.src
                           /\ edge.target_terminal_id = terminal.target
                           /\ edge.order = IF terminal.order # NoneInt
                                           THEN terminal.order ELSE dep.order
             ELSE /\ Len(links) = 1
                  /\ log[links[1]].args.edge.start_terminal_id = NoneStr
                  /\ log[links[1]].args.edge.order = dep.order

\* The versions of a component in a remote state.
VersionsOf(r, comp_id) ==
    {v \in DOMAIN r.versions : r.branches[r.versions[v].branch].comp = comp_id}

\* C23: flow assembly reconciles a member whose component already exists
\* remotely in DEFAULT mode: no create_version, create_branch or
\* update_component is issued for that component, and every
\* add_comp_in_flow for the member carries the uid of the version that was
\* active before the assembly started.
C23_MembersReconciledInDefault ==
    [][(Called /\ ThisCall.comp.payload = "flow")
       => \A i \in DOMAIN ThisCall.comp.flow :
             LET member == ThisCall.comp.flow[i]
                 before == get_parsed_component_by_reverse_id(remote, member.reverse_id)
             IN (IsOk(before) /\ Truthy(before.value))
                => LET comp_id == before.value.f.uid.s
                   IN /\ \A k \in DOMAIN log' :
                            /\ log'[k].op = "update_component"
                                  => log'[k].args.comp_id # comp_id
                            /\ log'[k].op = "create_branch"
                                  => log'[k].args.component_id # comp_id
                            /\ log'[k].op = "create_version"
                                  => remote'.branches[log'[k].args.branch_id].comp
                                        # comp_id
                            /\ (/\ log'[k].op = "add_comp_in_flow"
                                /\ log'[k].args.alias = member.alias)
                                  => log'[k].args.target_comp_version_id
                                        = VersionUidOf(before.value)
                      /\ VersionsOf(remote', comp_id) = VersionsOf(remote, comp_id)
      ]_vars

\* The asset was reconciled first; the flow assembled next registered its
\* member a with the version the asset had, and its member b, which the
\* assembly had to create.
C23_Witness ==
    /\ Len(calls) = 2
    /\ calls[1].comp = AssetDescription
    /\ IsOk(calls[1].result)
    /\ FlowCall
    /\ IsOk(LastCall.result)
    /\ CallsOf(log, {"create_flow_in_version"}) # {}
    /\ \E i \in DOMAIN Declared, k \in Adds :
          /\ Declared[i].reverse_id = AssetRid
          /\ log[k].args.alias = Declared[i].alias
          /\ log[k].args.target_comp_version_id = VersionUidOf(calls[1].result.value)
    /\ \E k \in DOMAIN log : log[k].depth = 2 /\ log[k].op = "create_version"

\* The set_in_flow_component_cfg calls of the last call for a member.
CfgSets(alias) ==
    {k \in CallsOf(log, {"set_in_flow_component_cfg"}) :
        log[k].args.comp_id = InFlowId(alias)}

\* The configurations the reference a member of a flow holds designates.
ActiveCfgs(r, flow_id, comp_id) ==
    {r.cfgs[c].uid : c \in
        {c \in DOMAIN r.cfgs :
            \E i \in DOMAIN r.flows[flow_id].members :
                /\ r.flows[flow_id].members[i].uid = comp_id
                /\ HasText(r.flows[flow_id].members[i].cfg)
                /\ r.flows[flow_id].members[i].cfg = r.cfgs[c].core_name}}

\* C25: for a member with an inline configuration object the assembly
\* issues exactly one create_cfg_standalone and then
\* set_in_flow_component_cfg for the member, in that order, and the
\* configuration made active is the one just created; for a member with a
\* named reference it issues set_in_flow_component_cfg with that name and
\* no create_cfg_standalone; for a member with no configuration, neither.
C25_InlineCfgCreatedThenSet ==
    (FlowCall /\ AllMembersAdded)
    => /\ \A i \in DOMAIN Declared :
             LET member == Declared[i]
                 sets == CfgSets(member.alias)
             IN CASE member.active_cfg.kind = "schema" ->
                       \E k \in sets :
                          /\ sets = {k}
                          /\ log[k - 1].op = "create_cfg_standalone"
                          /\ log[k - 1].args.uid
                                \in ActiveCfgs(remote, log[k].args.flow_id,
                                               log[k].args.comp_id)
                  [] member.active_cfg.kind = "str" ->
                       \E k \in sets :
                          /\ sets = {k}
                          /\ log[k].args.cfg_core_id = member.active_cfg.core_name
                          /\ log[k - 1].op # "create_cfg_standalone"
                  [] OTHER -> sets = {}
       /\ Cardinality(CallsOf(log, {"create_cfg_standalone"}))
             = Cardinality({i \in DOMAIN Declared :
                               Declared[i].active_cfg.kind = "schema"})

\* The flows a remote state holds under a version (none for a version the
\* state does not hold).
FlowsUnder(r, version_id) ==
    IF version_id \in DOMAIN r.versions THEN ContentOf(r, version_id, "flow")
    ELSE <<>>

\* C26: step 1 of the assembly resolves or creates the flow of the target
\* version: when the version has no flow yet, get_flow_by_version_id
\* reports absence without raising and exactly one create_flow_in_version
\* is issued; when it has one, that flow is reused and no
\* create_flow_in_version is issued; a version never has two flows.
C26_FlowResolvedOrCreated ==
    [][(Called /\ CallsOf(log', {"get_flow_by_version_id"}) # {})
       => LET gets == CallsOf(log', {"get_flow_by_version_id"})
              creates == CallsOf(log', {"create_flow_in_version"})
              k == CHOOSE k \in gets : TRUE
              version_id == log'[k].args.version_id
              had == FlowsUnder(remote, version_id)
              has == FlowsUnder(remote', version_id)
          IN /\ gets = {k}
             /\ IF had = <<>>
                THEN /\ ThisCall.result # Raised("TypeError")
                     /\ creates = {k + 1}
                     /\ log'[k + 1].args.version_id = version_id
                     /\ Len(has) = 1
                     /\ has[1].uid = log'[k + 1].args.uid
                ELSE /\ creates = {}
                     /\ has = had
             /\ \A a \in CallsOf(log', {"add_comp_in_flow"}) :
                   log'[a].args.flow_id = has[1].uid
             /\ \A v \in DOMAIN remote'.versions :
                   Len(ContentOf(remote', v, "flow")) <= 1
      ]_vars

\* C27: handle_reverse_id returns the provider's description whenever the
\* provider has one for the reverse_id, without a remote lookup; it issues
\* the remote lookup only when there is no provider or the provider has
\* nothing, and raises the not-found error exactly when both the provider
\* and the remote have nothing.
C27_LocalBeforeRemote ==
    [][(/\ Called
        /\ ThisCall.comp.payload = "flow"
        /\ CallsOf(log', {"get_flow_by_version_id"}) # {}
        /\ ThisCall.result # Raised("TypeError"))
       => LET flow == ThisCall.comp.flow
              local == {i \in DOMAIN flow : flow[i].reverse_id \in DOMAIN provider}
              lost == {i \in DOMAIN flow \ local :
                          ~Existing(remote, flow[i].reverse_id)}
              reached == {i \in DOMAIN flow : \A j \in 1..(i - 1) : j \notin lost}
              lookups(i) == {k \in CallsOf(log', {"get_parsed_component_by_reverse_id"}) :
                                log'[k].args.reverse_id = flow[i].reverse_id}
              nested(i) == {k \in DOMAIN log' :
                               /\ log'[k].depth = 2
                               /\ log'[k].op = "get_parsed_component_by_reverse_id"
                               /\ log'[k].args.reverse_id = flow[i].reverse_id}
          IN /\ \A i \in local :
                   /\ lookups(i) = {}
                   /\ i \in reached => nested(i) # {}
                   /\ \A k \in DOMAIN log' :
                         (/\ log'[k].op = "create_component"
                          /\ log'[k].args.reverse_id = flow[i].reverse_id)
                         => log'[k].args.type
                               = TypeOf(provider[flow[i].reverse_id])
             /\ \A i \in DOMAIN flow \ local :
                   Cardinality(lookups(i))
                      = Cardinality({j \in reached :
                                        flow[j].reverse_id = flow[i].reverse_id})
             /\ ThisCall.result = Raised("ValueError") <=> reached \cap lost # {}
      ]_vars

\* The provider knows the app only: the assembly took the app from it (and
\* created it from that description) without a remote lookup, and looked
\* the asset up remotely.
C27_Witness ==
    /\ provider = AppLocal
    /\ FlowCall
    /\ IsOk(LastCall.result)
    /\ \E k \in CallsOf(log, {"get_parsed_component_by_reverse_id"}) :
          log[k].args.reverse_id = AssetRid
    /\ \A k \in CallsOf(log, {"get_parsed_component_by_reverse_id"}) :
          log[k].args.reverse_id # AppRid
    /\ \E k \in DOMAIN log :
          /\ log[k].depth = 2
          /\ log[k].op = "create_component"
          /\ log[k].args.reverse_id = AppRid

\* The declared dependencies that give no alias: <<member, dependency>>.
Unaliased ==
    {p \in UNION {{<<i, j>> : j \in DOMAIN Declared[i].depends} : i \in DOMAIN Declared} :
        ~HasText(Declared[p[1]].depends[p[2]].alias)}

\* A call of the second pass with the two in-flow ids is one a dependency
\* with an alias asks for.
AskedFor(ids) ==
    \E p \in DeclaredDeps :
        /\ ids.start_id = InFlowId(Declared[p[1]].depends[p[2]].alias)
        /\ ids.target_id = InFlowId(Declared[p[1]].alias)

\* C29: in pass 2 a declared dependency whose alias is absent or empty is
\* skipped: no link call, no add_schema_alias call and no error results
\* from it, and the key it is stored under is never used to resolve the
\* source member.
C29_UnaliasedDependencySkipped ==
    (FlowCall /\ AllMembersAdded /\ Unaliased # {})
    => /\ ~MissingAlias => IsOk(LastCall.result)
       /\ \A l \in Links :
             /\ AskedFor(log[l].args.edge)
             /\ \A p \in Unaliased :
                   \A t \in DOMAIN Declared[p[1]].depends[p[2]].terminals :
                      log[l].args.edge.start_terminal_id
                         # Declared[p[1]].depends[p[2]].terminals[t].src
       /\ \A a \in CallsOf(log, {"add_schema_alias"}) : AskedFor(log[a].args.alias)
       /\ \A p \in DeclaredDeps :
             IsOk(LastCall.result)
             => Len(LinksBetween(InFlowId(Declared[p[1]].depends[p[2]].alias),
                                 InFlowId(Declared[p[1]].alias)))
                   = LinksAskedFor(Declared[p[1]].depends[p[2]])

\* Member b declares a dependency without alias under the key a, one on the
\* alias a, and one with an empty alias under the key zz: the assembly
\* completed with the one link from a to b and no schema alias.
C29_Witness ==
    /\ FlowCall
    /\ IsOk(LastCall.result)
    /\ Cardinality(Unaliased) = 2
    /\ Cardinality(DeclaredDeps) = 1
    /\ Cardinality(Links) = 1
    /\ CallsOf(log, {"add_schema_alias"}) = {}

\* The flows the last call registered members in.
FlowsAssembled == {log[k].args.flow_id : k \in Adds}

\* The members of a flow that carry an alias.
MembersAliased(g, alias) ==
    {i \in DOMAIN remote.flows[g].members : remote.flows[g].members[i].alias = alias}

\* C16 (as claimed): after a completed flow assembly the members registered
\* in the flow have pairwise distinct aliases, and every alias a declared
\* dependency uses is the alias of exactly one registered member.
C16_AliasesDistinct ==
    (FlowCall /\ IsOk(LastCall.result))
    => \A g \in FlowsAssembled :
          /\ \A i \in DOMAIN remote.flows[g].members :
                MembersAliased(g, remote.flows[g].members[i].alias) = {i}
          /\ \A p \in DeclaredDeps :
                Cardinality(MembersAliased(g, Declared[p[1]].depends[p[2]].alias)) = 1

(***************************************************************************)
(* Claims about _parse_in_flow_component (checked under SpecParse)         *)
(***************************************************************************)
PinNode == pin.f["node"]

\* Key k of the member is missing or null.
KeyAbsent(k) == k \notin DOMAIN PinNode.f \/ PinNode.f[k].t = "null"

\* Key k of the member is an empty edge list.
KeyEmptyEdges(k) ==
    /\ ~KeyAbsent(k)
    /\ PinNode.f[k] = JObj([edges |-> JList(<<>>)])

\* The member's own identifier is there.
PinHasUid == Safe(pin, <<"node", "details", "uid">>).t = "str"

\* C10 (as claimed): parsing a member in which prev, cfg and collectionAlias
\* are each missing, null or an empty edge list does not raise, and gives
\* prev = [], active_cfg = None and collection = None.
C10_OptionalKeysTolerated ==
    (/\ pout # NotCalled
     /\ PinHasUid
     /\ KeyAbsent("prev") \/ KeyEmptyEdges("prev")
     /\ KeyAbsent("cfg")
     /\ KeyAbsent("collectionAlias"))
    => (/\ IsOk(pout)
        /\ pout.value.prev = <<>>
        /\ pout.value.active_cfg = JNull
        /\ pout.value.collection = JNull)

\* The response is a component response, and its own identifier is there.
PinIsComp == "activeBranch" \in DOMAIN pin.f
PinCompHasUid == Safe(pin, <<"details", "uid">>).t = "str"

\* The in-flow members a parsed component carries.
MembersOf(loaded) ==
    IF loaded.f.flow.t = "null" THEN <<>> ELSE loaded.f.flow.f.components.l

\* C11: parsing a component response or an in-flow member response whose own
\* details.uid is missing or null raises; no entity the parser returns (the
\* component, the member, the members of the component's flow) has a uid
\* that is not a string.
C11_MissingUidIsFatal ==
    pout # NotCalled =>
        IF PinIsComp
        THEN /\ ~PinCompHasUid => ~IsOk(pout)
             /\ IsOk(pout) =>
                   /\ pout.value.f.uid.t = "str"
                   /\ \A i \in DOMAIN MembersOf(pout.value) :
                         MembersOf(pout.value)[i].uid.t = "str"
        ELSE /\ ~PinHasUid => ~IsOk(pout)
             /\ IsOk(pout) => pout.value.uid.t = "str"

\* A member response whose details carry an alias and a null uid, everything
\* else in place, was parsed and the parser raised.
C11_Witness ==
    /\ pout = Raised("ValidationError")
    /\ ~PinIsComp
    /\ Safe(pin, <<"node", "details", "alias">>) = JStr(<<"a">>)
    /\ "uid" \in DOMAIN PinNode.f["details"].f
    /\ PinNode.f["details"].f["uid"] = JNull

(***************************************************************************)
(* Claims about increment_version (checked under SpecIncr)                 *)
(***************************************************************************)
Absent(previous) == previous = NoneStr \/ previous = <<>>

ThreeSegments(previous) == NumericDotted(previous) /\ Len(Split(previous)) = 3

\* What the version arithmetic of the specification gives for x.y.z.
ExpectedBump(x, y, z, mode) ==
    CASE mode = "major" -> Join(<<PyStr(DigitsToInt(x) + 1), <<"0">>, <<"0">>>>)
      [] mode = "minor" -> Join(<<x, PyStr(DigitsToInt(y) + 1), <<"0">>>>)
      [] mode = "patch" -> Join(<<x, y, PyStr(DigitsToInt(z) + 1)>>)

\* C3: on a three-segment numeric identifier x.y.z increment_version returns
\* (x+1).0.0 for major, x.(y+1).0 for minor and x.y.(z+1) for patch; when
\* previous is None or empty the base is 0.0.0.
C3_VersionArithmetic ==
    fout # NotCalled =>
        /\ ThreeSegments(fin.previous) =>
              LET b == Split(fin.previous)
              IN fout = Ok(ExpectedBump(b[1], b[2], b[3], fin.mode))
        /\ Absent(fin.previous) =>
              fout = Ok(ExpectedBump(<<"0">>, <<"0">>, <<"0">>, fin.mode))

\* C3 witness: 1.9.9 bumped in mode minor gave 1.10.0, and an absent previous
\* is among the inputs.
C3_Witness ==
    /\ fin.previous = <<"1", ".", "9", ".", "9">>
    /\ fin.mode = "minor"
    /\ fout = Ok(<<"1", ".", "1", "0", ".", "0">>)

\* The position of the segment a mode increments.
SegmentOf(mode) ==
    CASE mode = "major" -> 1 [] mode = "minor" -> 2 [] mode = "patch" -> 3

\* The identifier with the segment of the mode incremented and every
\* less-significant segment set to 0.
BumpedAt(b, at) ==
    Join([i \in DOMAIN b |->
            IF i < at THEN b[i]
            ELSE IF i = at THEN PyStr(DigitsToInt(b[i]) + 1)
            ELSE <<"0">>])

\* C17 (as claimed): for a previous identifier of the strict numeric dotted
\* pattern with any number of segments, increment_version returns without
\* error the identifier with the segment of the mode incremented and every
\* less-significant segment set to 0.
C17_AnyNumberOfSegments ==
    (fout # NotCalled /\ ~Absent(fin.previous) /\ MatchesStrict(fin.previous))
    => fout = Ok(BumpedAt(Split(fin.previous), SegmentOf(fin.mode)))

\* C4 (as claimed): a previous identifier that is not a strictly numeric
\* dotted string yields, in every mode, a freshly generated token that
\* differs from the input and is no segment increment of it.
C4_NonNumericYieldsFreshToken ==
    (fout # NotCalled /\ ~Absent(fin.previous) /\ ~MatchesStrict(fin.previous)) =>
        (fout.st = "ok" /\ fout.value \in UUIDS /\ fout.value # fin.previous)

(***************************************************************************)
(* Claims about version names (checked under SpecFaulty)                   *)
(***************************************************************************)
(* Claims about the active-op selection (checked under SpecOps)            *)
(***************************************************************************)
\* The available ops whose core_id the member declares, by position.
Matched ==
    {i \in DOMAIN fin.av :
        \E x \in DOMAIN fin.app.active_op :
            fin.app.active_op[x].core_id = fin.av[i].core_id}

\* Where a uid stands in a selected_op: <<entry, position in opId>>.
PlacesOf(selected, uid) ==
    {p \in UNION {{<<k, j>> : j \in DOMAIN selected[k].opId} : k \in DOMAIN selected} :
        selected[p[1]].opId[p[2]] = uid}

\* C24: for an app-typed member with a declared active-op selection,
\* selected_op has exactly the uids of the available ops whose core_id is
\* declared, each uid in exactly one entry, and one {opType, opId} entry per
\* distinct type among the matched ops; for a member that is not an app or
\* declares no active ops, selected_op is absent.
C24_SelectedOps ==
    fout # NotCalled
    => LET selected == fout.value
       IN IF fin.type = "app" /\ fin.app.declared /\ fin.app.active_op # <<>>
          THEN /\ selected.given
               /\ \A i \in DOMAIN fin.av :
                     LET places == PlacesOf(selected.list, fin.av[i].uid)
                     IN IF i \in Matched
                        THEN /\ Cardinality(places) = 1
                             /\ \A p \in places :
                                   selected.list[p[1]].opType = fin.av[i].type
                        ELSE places = {}
               /\ \A k \in DOMAIN selected.list :
                     /\ selected.list[k].opId # <<>>
                     /\ \A j \in DOMAIN selected.list[k].opId :
                           \E i \in Matched :
                              fin.av[i].uid = selected.list[k].opId[j]
                     /\ \A h \in DOMAIN selected.list :
                           selected.list[h].opType = selected.list[k].opType => h = k
               /\ Len(selected.list)
                     = Cardinality({fin.av[i].type : i \in Matched})
          ELSE ~selected.given

\* An app member declares two core ids; two available ops of different
\* types match and a third does not.
C24_Witness ==
    /\ fout # NotCalled
    /\ fin.type = "app"
    /\ Len(fin.app.active_op) = 2
    /\ Len(fin.av) = 3
    /\ Cardinality(Matched) = 2
    /\ Len(fout.value.list) = 2

(***************************************************************************)
\* The lookup of a reverse id finds a component that has an active branch
\* and no active version.
WithoutVersion(r, reverse_id) ==
    /\ Existing(r, reverse_id)
    /\ r.comps[UidOf(r, reverse_id)].activeBranch # NoneStr
    /\ r.branches[r.comps[UidOf(r, reverse_id)].activeBranch].activeVersion = NoneStr

\* C18 (as claimed): component() in mode MAJOR, MINOR or PATCH, with no
\* branch name and no version name, on an existing component that has no
\* active version (an earlier call aborted after creating its branch) does
\* not raise and creates the version 1.0.0, 0.1.0 or 0.0.1.
C18_BumpWithoutActiveVersion ==
    [][(/\ Called
        /\ ThisCall.fault = 0
        /\ ThisCall.mode \in BumpModes
        /\ ~HasText(ThisCall.comp.branch_name)
        /\ ~HasText(ThisCall.comp.version_name)
        /\ WithoutVersion(remote, ThisCall.comp.reverse_id))
       => /\ IsOk(ThisCall.result)
          /\ \E k \in CallsOf(log', {"create_version"}) :
                log'[k].args.readable_name
                    = ExpectedBump(<<"0">>, <<"0">>, <<"0">>, ThisCall.mode)
      ]_vars

====
